---- MODULE Spec2Model ----
(***************************************************************************)
(* TurboTesting (node): the HTTP assertion orchestrator                    *)
(* (HTTPTestsManager.assertUrlsFail / assertHttpRequests) and the          *)
(* browser-state assertion orchestrator (AutomatedBrowserManager.loadUrl,  *)
(* assertBrowserState, assertUrlsLoadOk, assertUrlsRedirect).               *)
(*                                                                         *)
(* A text is a sequence of symbols.  An optional field of a JavaScript     *)
(* object is a sequence of length 0 (absent or null) or 1.                 *)
(***************************************************************************)
EXTENDS Integers, Sequences, FiniteSets, TLC

VARIABLES
    wildcards,                  \* HTTPTestsManager.wildcards / AutomatedBrowserManager.wildcards
    isAssertExceptionsEnabled,  \* property the tests set on the instance
    okUrls,                     \* environment: the urls the server answers with 200
    httpOp,                     \* the batch method that was called
    httpPc,                     \* "idle", "waiting", "completed", "thrown", "crashed"
    httpInput,                  \* the list as the caller passed it
    httpUrls,                   \* the urls array (consumed by urls.shift())
    httpEntry,                  \* <<entry>> of the request in flight, <<>> when none
    httpInFlight,               \* number of requests handed to httpManager.execute not yet answered
    httpRequests,               \* every request issued so far, in order
    httpAnyErrors,              \* the anyErrors array of the call
    httpThrown,                 \* <<error>> once an Error was thrown
    httpCallbackArgs,           \* what completeCallback was invoked with, one element per invocation
    ignoreConsoleErrors,        \* AutomatedBrowserManager.ignoreConsoleErrors
    logEntries,                 \* AutomatedBrowserManager.logEntries
    brPage,                     \* environment: the page the browser shows
    brConsole,                  \* environment: console entries the driver has not handed out yet
    brCall,                     \* the method the caller invoked
    brCalls,                    \* number of calls the caller has made
    brPc,                       \* the pending asynchronous step, "idle" or "thrown"
    loadCont,                   \* who receives the completeCallback of loadUrl
    loadResults,                \* the results object of loadUrl
    absCont,                    \* who receives the completeCallback of assertBrowserState
    absAsserts,                 \* the asserts argument of assertBrowserState
    absAnyErrors,               \* anyErrors of assertBrowserState
    absBrowserUrl,              \* browserUrl of assertBrowserState
    absTrace,                   \* the queries and field checks assertBrowserState has made, in order
    batchInput,                 \* the list as the caller passed it
    batchUrls,                  \* the urls array of the batch method
    batchEntry,                 \* <<entry>> under work
    batchAnyErrors,             \* anyErrors of the batch method
    brNavigations,              \* the urls handed to driver.get during the call, in order
    brAsserted,                 \* positions of the entries handed to assertBrowserState
    brThrown,                   \* <<error>> once an Error was thrown
    brCompleted,                \* number of times the caller's completeCallback ran
    brVisited,                  \* environment: the urls of the pages the browser has shown, in order
    brEmitted,                  \* environment: the console entries a page wrote after it was loaded
    absStart,                   \* environment: the page shown when assertBrowserState was called
    txOp,                       \* the StringTestsManager method that was called
    txArgs,                     \* its arguments
    txPc,                       \* "idle", "called", "returned", "loop" (in replaceWildCardsOnObject), "done"
    txHeap,                     \* the strings and arrays the call can reach, by reference
    txLocals,                   \* the local variables of replaceWildCardsOnObject
    txResult,                   \* the values returned so far, <<>> before the first return
    txErrors,                   \* the texts handed to consoleManager.error
    xpCall,                     \* the element method that was called, with its arguments
    xpPc,                       \* "idle", "called", the driver request it waits for, "done", "thrown"
    xpLocals,                   \* the closure of the call: index, elemensFound, exist, the waits to do
    xpThrown,                   \* the error the call ended with, if any
    xpCallbacks,                \* the arguments of each run of completeCallback
    qcCall,                     \* <<queries>> when queryCalls was called, else <<>>
    qcQueries,                  \* the queries of the running recursiveCaller, the first being run
    qcStarted,                  \* the queries whose method was applied, in the order of the calls
    qcCompleted,                \* how many times the completeCallback of queryCalls has run
    ckCall,                     \* <<>> or the clickByXpath / clickById call
    ckLocals,                   \* xpathsArray and index of clickByXpath, attempts of the click
    ckTrace,                    \* what the driver answered or was asked to click, in order
    ckCallbacks,                \* how many times the completeCallback of the click call has run
    snCall,                     \* the last assertSnapshot call: <<>> or <<[snapShotPath, options]>>
    snPc,                       \* "idle", "ready", "screenshot", "done", "thrown"
    snLocals,                   \* data, newSnapshot, oldSnapshot, differentPixels of the call
    snThrown,                   \* the error the call ended with, if any
    snCallbacks,                \* how many times completeCallback has run in the call
    snFiles,                    \* the files of the snapshots folder: <<>> or <<image>> per name
    snCalls                     \* how many times assertSnapshot was called

httpVars == <<wildcards, isAssertExceptionsEnabled, okUrls, httpOp, httpPc, httpInput,
              httpUrls, httpEntry, httpInFlight, httpRequests, httpAnyErrors, httpThrown,
              httpCallbackArgs>>

brVars == <<ignoreConsoleErrors, logEntries, brPage, brConsole, brCall, brCalls, brPc, loadCont,
            loadResults, absCont, absAsserts, absAnyErrors, absBrowserUrl, absTrace,
            batchInput, batchUrls, batchEntry, batchAnyErrors, brNavigations, brAsserted,
            brThrown, brCompleted, brVisited, brEmitted, absStart>>

httpCallVars == <<httpOp, httpPc, httpInput, httpUrls, httpEntry, httpInFlight, httpRequests,
                  httpAnyErrors, httpThrown, httpCallbackArgs>>

txVars == <<txOp, txArgs, txPc, txHeap, txLocals, txResult, txErrors>>

xpVars ==
    <<xpCall, xpPc, xpLocals, xpThrown, xpCallbacks, qcCall, qcQueries, qcStarted, qcCompleted,
      ckCall, ckLocals, ckTrace, ckCallbacks>>

snVars == <<snCall, snPc, snLocals, snThrown, snCallbacks, snFiles, snCalls>>

vars == <<httpVars, brVars, txVars, xpVars, snVars>>

----------------------------------------------------------------------------
(* Bounds *)

MaxEntries == 2

MaxCalls == 2

\* longest text and longest fragment list handed to the StringTestsManager methods
MaxTextLen == 3

MaxFragments == 2

----------------------------------------------------------------------------
(* JavaScript strings *)

Max(a, b) == IF a >= b THEN a ELSE b

Min(a, b) == IF a <= b THEN a ELSE b

\* text.substr(from, len) with 0-based from
Substr(text, from, len) == SubSeq(text, from + 1, Min(from + len, Len(text)))

MatchesAt(text, frag, i) ==
    /\ i >= 0
    /\ i + Len(frag) <= Len(text)
    /\ \A k \in 1..Len(frag) : text[i + k] = frag[k]

\* String.prototype.indexOf(frag, from): first 0-based position >= from, or -1
IndexOfFrom(text, frag, from) ==
    LET start == Min(Max(from, 0), Len(text))
        hits == {i \in start..Len(text) : MatchesAt(text, frag, i)}
    IN IF hits = {} THEN -1 ELSE CHOOSE i \in hits : \A j \in hits : i <= j

IndexOf(text, frag) == IndexOfFrom(text, frag, 0)

\* String.prototype.lastIndexOf(frag, from): last 0-based position <= from, or -1
LastIndexOfFrom(text, frag, from) ==
    LET hits == {i \in 0..Min(Max(from, 0), Len(text)) : MatchesAt(text, frag, i)}
    IN IF hits = {} THEN -1 ELSE CHOOSE i \in hits : \A j \in hits : i >= j

\* a replace that takes the first character of search for the whole of it
RECURSIVE StringReplaceOnFirstCharacter(_, _, _)
StringReplaceOnFirstCharacter(text, search, replacement) ==
    IF search = <<>> \/ text = <<>> THEN text
    ELSE IF text[1] = search[1]
         THEN replacement \o StringReplaceOnFirstCharacter(SubSeq(text, Len(search) + 1, Len(text)),
                                                           search, replacement)
         ELSE <<text[1]>> \o StringReplaceOnFirstCharacter(Tail(text), search, replacement)

\* StringUtils.replace(text, search, replacement): every occurrence, left to right
RECURSIVE StringReplace(_, _, _)
StringReplace(text, search, replacement) ==
    IF search = <<>> \/ text = <<>> THEN text
    ELSE IF MatchesAt(text, search, 0)
         THEN replacement \o StringReplace(SubSeq(text, Len(search) + 1, Len(text)), search, replacement)
         ELSE <<text[1]>> \o StringReplace(Tail(text), search, replacement)

\* The value undefined where a text is expected ("undefined" once it is made a string)
UNDEFINED == <<"undefined">>

\* String(object) of a plain object
OBJECT_STRING == <<"[object Object]">>

----------------------------------------------------------------------------
(* StringTestsManager *)

RECURSIVE replaceWildCardsOnText(_, _)
replaceWildCardsOnText(text, table) ==
    IF table = <<>> THEN text
    ELSE replaceWildCardsOnText(StringReplace(text, table[1].key, table[1].value), Tail(table))

\* string | string[] | undefined : an optional list of fragments
replaceWildCardsOnObject(object, table) ==
    IF object = <<>> THEN <<>>
    ELSE << [i \in 1..Len(object[1]) |-> replaceWildCardsOnText(object[1][i], table)] >>

assertTextStartsWith(text, mustStartWith) == LastIndexOfFrom(text, mustStartWith, 0) = 0

assertTextEndsWith(text, mustEndWith) ==
    IndexOfFrom(text, mustEndWith, Len(text) - Len(mustEndWith)) # -1

\* number of errors assertTextContainsAll counts for the fragment list
RECURSIVE ContainsAllErrors(_, _, _, _)
ContainsAllErrors(text, fragmentsArray, indexesFound, strictOrder) ==
    IF fragmentsArray = <<>> THEN 0
    ELSE LET idx == IndexOf(text, fragmentsArray[1])
             found == Append(indexesFound, idx)
             maxIndexFound == CHOOSE m \in {found[i] : i \in 1..Len(found)} :
                                  \A i \in 1..Len(found) : found[i] <= m
             notFound == IF idx < 0 THEN 1 ELSE 0
             badOrder == IF strictOrder /\ idx < maxIndexFound THEN 1 ELSE 0
         IN notFound + badOrder + ContainsAllErrors(text, Tail(fragmentsArray), found, strictOrder)

\* assertTextContainsAll that applies the strict order check whatever strictOrder says
assertTextContainsAllAlwaysStrict(text, toBeFound, strictOrder) ==
    ContainsAllErrors(text, toBeFound, <<>>, TRUE) = 0

assertTextContainsAll(text, toBeFound, strictOrder) ==
    ContainsAllErrors(text, toBeFound, <<>>, strictOrder) = 0

\* the texts assertTextContainsAll hands to consoleManager.error, in order
RECURSIVE ContainsAllDiagnostics(_, _, _, _, _)
ContainsAllDiagnostics(text, fragmentsArray, indexesFound, message, strictOrder) ==
    IF fragmentsArray = <<>> THEN <<>>
    ELSE LET fragment == fragmentsArray[1]
             idx == IndexOf(text, fragment)
             found == Append(indexesFound, idx)
             maxIndexFound == CHOOSE m \in {found[i] : i \in 1..Len(found)} :
                                  \A i \in 1..Len(found) : found[i] <= m
         IN (IF idx < 0 THEN <<StringReplace(message, <<"$fragment">>, fragment)>> ELSE <<>>)
            \o (IF strictOrder /\ idx < maxIndexFound
                THEN << <<"does not follow the expected strict order: ">> \o fragment >> ELSE <<>>)
            \o ContainsAllDiagnostics(text, Tail(fragmentsArray), found, message, strictOrder)

assertTextNotContainsAny(text, notToBeFound) ==
    \A i \in 1..Len(notToBeFound) : IndexOf(text, notToBeFound[i]) < 0

\* assertTextNotContainsAny reporting the message as given, $fragment left in it
NotContainsAnyDiagnosticsUnreplaced(text, fragmentsArray, message) ==
    LET present == SelectSeq(fragmentsArray, LAMBDA fragment : IndexOf(text, fragment) >= 0)
    IN [i \in 1..Len(present) |-> message]

\* the texts assertTextNotContainsAny hands to consoleManager.error, in order
NotContainsAnyDiagnostics(text, fragmentsArray, message) ==
    LET present == SelectSeq(fragmentsArray, LAMBDA fragment : IndexOf(text, fragment) >= 0)
    IN [i \in 1..Len(present) |-> StringReplace(message, <<"$fragment">>, present[i])]

----------------------------------------------------------------------------
(* Inputs of the HTTP batch methods *)

A == <<"a">>

B == <<"b">>

C == <<"c">>

W == <<"$">>

\* the url of a page that is still loading when driver.get is answered
L == <<"l">>

\* the wildcard tables the caller may have set: {} or {$: 'a'}
WildcardTables == { <<>>, << [key |-> W, value |-> A] >> }

\* the urls the server can answer with 200 ok
ServedUrls == {A, B}

\* the body the server sends for a url it serves
ResponseBody(url) == IF url = A THEN <<"a", "b">> ELSE <<"b", "a">>

\* postParameters: absent, {}, {p: 1}, {p: 2}
PostParameters == {"none", "empty", "p1", "p2"}

\* ObjectUtils.getKeys(postParameters).length
PostKeysCount(post) == IF post \in {"none", "empty"} THEN 0 ELSE 1

\* JSON.stringify(postParameters)
JsonStringify(post) ==
    IF post = "empty" THEN <<"{", "}">>
    ELSE <<"{", "p", ":", (IF post = "p1" THEN "1" ELSE "2"), "}">>

StringEntry(url) ==
    [kind |-> "string", url |-> url, post |-> "none", contains |-> <<>>, startWith |-> <<>>,
     endWith |-> <<>>, notContains |-> <<>>, extraKeys |-> <<>>]

ObjectEntry(url, post, contains, startWith, endWith, notContains, extraKeys) ==
    [kind |-> "object", url |-> url, post |-> post, contains |-> contains,
     startWith |-> startWith, endWith |-> endWith, notContains |-> notContains,
     extraKeys |-> extraKeys]

\* bare strings, {url}, {url, postParameters}, records with expectations, records
\* with a key that is not a recognized field name
HttpEntries ==
    {StringEntry(u) : u \in {A, B, W}}
    \cup {ObjectEntry(u, "none", <<>>, <<>>, <<>>, <<>>, <<>>) : u \in {A, B, W}}
    \cup {ObjectEntry(A, p, <<>>, <<>>, <<>>, <<>>, <<>>) : p \in {"empty", "p1", "p2"}}
    \cup {ObjectEntry(B, "none", << <<C>> >>, <<>>, <<>>, <<>>, <<>>),
          ObjectEntry(B, "none", <<>>, <<A>>, <<A>>, <<>>, <<>>),
          ObjectEntry(B, "none", <<>>, <<>>, <<>>, << <<A>> >>, <<>>)}
    \cup {ObjectEntry(B, "none", <<>>, <<>>, <<>>, <<>>, <<"someinvalidProp">>),
          ObjectEntry(B, "none", <<>>, <<A>>, <<>>, <<>>, <<"someinvalidProp">>)}

RECURSIVE SeqsUpTo(_, _)
SeqsUpTo(S, n) ==
    IF n = 0 THEN {<<>>}
    ELSE LET shorter == SeqsUpTo(S, n - 1)
         IN shorter \cup {Append(q, e) : q \in {r \in shorter : Len(r) = n - 1}, e \in S}

HttpEntryLists == SeqsUpTo(HttpEntries, MaxEntries)

----------------------------------------------------------------------------
(* turbocommons ArrayUtils, as the code uses it *)

\* a property read of an entry: entry.url is undefined on a string primitive
EntryUrl(l) == IF l.kind = "string" THEN UNDEFINED ELSE l.url

\* the list has two positions holding === values
HasDuplicateValues(values) ==
    \E i, j \in 1..Len(values) : i < j /\ values[i] = values[j]

\* ArrayUtils.getDuplicateElements: the values found more than once, once each
RECURSIVE DuplicateValuesFrom(_, _, _)
DuplicateValuesFrom(values, i, acc) ==
    IF i > Len(values) THEN acc
    ELSE LET v == values[i]
             again == \E j \in 1..(i - 1) : values[j] = v
             known == \E k \in 1..Len(acc) : acc[k] = v
         IN DuplicateValuesFrom(values, i + 1, IF again /\ ~known THEN Append(acc, v) ELSE acc)

GetDuplicateElements(values) == DuplicateValuesFrom(values, 1, <<>>)

\* the elements of the urls array as === sees them: a string by value, an object by
\* reference (every position of the list holds an object of its own)
ElementValues(urls) ==
    [i \in 1..Len(urls) |-> IF urls[i].kind = "string" THEN <<"string", urls[i].url>>
                            ELSE <<"object", i>>]

\* what join('\n') prints for an element of the urls array
ElementText(urls, v) == IF v[1] = "string" THEN v[2] ELSE OBJECT_STRING

----------------------------------------------------------------------------
(* HTTPTestsManager *)

\* one element of anyErrors: the message template, the url and the expected value it names
Msg(kind, url, text) == [kind |-> kind, url |-> url, text |-> text]

DuplicateUrlsError(method, names) ==
    [type |-> "duplicate", method |-> method, count |-> Len(names), messages |-> names]

\* `... failed with ${n} errors:\n` + anyErrors.join('\n')
AggregateError(method, anyErrors) ==
    [type |-> "aggregate", method |-> method, count |-> Len(anyErrors), messages |-> anyErrors]

\* assignment of a property on a string primitive in strict mode
TypeErrorOnString(method) ==
    [type |-> "TypeError", method |-> method, count |-> 0, messages |-> <<>>]

Request(method, url, post, index) ==
    [method |-> method, url |-> url, post |-> post, index |-> index]

\* position in the caller's list of the entry that urls.shift() returns
ShiftIndex(urls) == Len(httpInput') - Len(urls) + 1

\* the tail of recursiveCaller once urls is empty
FinishBatch(method, anyErrors) ==
    /\ httpUrls' = <<>>
    /\ httpEntry' = <<>>
    /\ httpAnyErrors' = anyErrors
    /\ httpRequests' = httpRequests
    /\ IF Len(anyErrors) > 0
       THEN /\ httpPc' = "thrown"
            /\ httpThrown' = <<AggregateError(method, anyErrors)>>
            /\ httpCallbackArgs' = httpCallbackArgs
       ELSE /\ httpPc' = "completed"
            /\ httpThrown' = httpThrown
            /\ httpCallbackArgs' = Append(httpCallbackArgs, <<>>)

\* the request handed to httpManager.execute by recursiveCaller
IssueRequest(urls, entry, request, anyErrors) ==
    /\ httpUrls' = Tail(urls)
    /\ httpEntry' = <<entry>>
    /\ httpAnyErrors' = anyErrors
    /\ httpRequests' = Append(httpRequests, request)
    /\ httpPc' = "waiting"
    /\ httpThrown' = httpThrown
    /\ httpCallbackArgs' = httpCallbackArgs

\* String(urls.shift())
EntryToString(entry) == IF entry.kind = "string" THEN entry.url ELSE OBJECT_STRING

\* recursiveCaller of assertUrlsFail; inFlight counts the requests still unanswered
UrlsFailRecursiveCaller(urls, anyErrors, inFlight) ==
    IF Len(urls) <= 0
    THEN FinishBatch("assertUrlsFail", anyErrors) /\ httpInFlight' = inFlight
    ELSE LET url == replaceWildCardsOnText(EntryToString(Head(urls)), wildcards)
         IN /\ IssueRequest(urls, Head(urls), Request("GET", url, "none", ShiftIndex(urls)), anyErrors)
            /\ httpInFlight' = inFlight + 1

\* recursiveCaller of assertHttpRequests
HttpRequestsRecursiveCaller(urls, anyErrors, inFlight) ==
    IF Len(urls) <= 0
    THEN FinishBatch("assertHttpRequests", anyErrors) /\ httpInFlight' = inFlight
    ELSE IF Head(urls).kind = "string"
    THEN \* entry.url = ... on a string primitive
         /\ httpUrls' = Tail(urls)
         /\ httpEntry' = <<>>
         /\ httpAnyErrors' = anyErrors
         /\ httpRequests' = httpRequests
         /\ httpPc' = "crashed"
         /\ httpThrown' = <<TypeErrorOnString("assertHttpRequests")>>
         /\ httpCallbackArgs' = httpCallbackArgs
         /\ httpInFlight' = inFlight
    ELSE LET entry == [Head(urls) EXCEPT
                          !.url = replaceWildCardsOnText(@, wildcards),
                          !.contains = replaceWildCardsOnObject(@, wildcards)]
             request == IF entry.post # "none"
                        THEN Request("POST", entry.url, entry.post, ShiftIndex(urls))
                        ELSE Request("GET", entry.url, "none", ShiftIndex(urls))
         IN /\ IssueRequest(urls, entry, request, anyErrors)
            /\ httpInFlight' = inFlight + 1

\* the hash assertHttpRequests computes for an entry
EntryHash(l) ==
    IF l.kind = "string" THEN UNDEFINED
    ELSE IF l.post # "none" /\ PostKeysCount(l.post) > 0
         THEN l.url \o JsonStringify(l.post)
         ELSE l.url

HttpConfig == <<wildcards, isAssertExceptionsEnabled, okUrls>>

ThrowSynchronously(urls, error) ==
    /\ httpUrls' = urls
    /\ httpEntry' = <<>>
    /\ httpAnyErrors' = <<>>
    /\ httpRequests' = <<>>
    /\ httpInFlight' = 0
    /\ httpPc' = "thrown"
    /\ httpThrown' = <<error>>
    /\ httpCallbackArgs' = <<>>

assertUrlsFail(urls) ==
    /\ httpPc = "idle"
    /\ UNCHANGED <<brVars, txVars, xpVars, snVars>>
    /\ httpOp' = "assertUrlsFail"
    /\ httpInput' = urls
    /\ UNCHANGED HttpConfig
    /\ IF HasDuplicateValues(ElementValues(urls))
       THEN ThrowSynchronously(urls, DuplicateUrlsError("assertUrlsFail",
                [i \in 1..Len(GetDuplicateElements(ElementValues(urls))) |->
                    ElementText(urls, GetDuplicateElements(ElementValues(urls))[i])]))
       ELSE UrlsFailRecursiveCaller(urls, <<>>, 0)

assertHttpRequests(urls) ==
    /\ httpPc = "idle"
    /\ UNCHANGED <<brVars, txVars, xpVars, snVars>>
    /\ httpOp' = "assertHttpRequests"
    /\ httpInput' = urls
    /\ UNCHANGED HttpConfig
    /\ IF HasDuplicateValues([i \in 1..Len(urls) |-> EntryHash(urls[i])])
       THEN ThrowSynchronously(urls, DuplicateUrlsError("assertHttpRequests",
                GetDuplicateElements([i \in 1..Len(urls) |-> EntryUrl(urls[i])])))
       ELSE HttpRequestsRecursiveCaller(urls, <<>>, 0)

\* the failures the successCallback of assertHttpRequests pushes for a response
ResponseFailures(entry, response) ==
    (IF entry.contains # <<>> /\ ~assertTextContainsAll(response, entry.contains[1], TRUE)
     THEN <<Msg("contains", entry.url, entry.contains[1][1])>> ELSE <<>>)
    \o (IF entry.startWith # <<>> /\ ~assertTextStartsWith(response, entry.startWith[1])
        THEN <<Msg("startWith", entry.url, entry.startWith[1])>> ELSE <<>>)
    \o (IF entry.endWith # <<>> /\ ~assertTextEndsWith(response, entry.endWith[1])
        THEN <<Msg("endWith", entry.url, entry.endWith[1])>> ELSE <<>>)
    \o (IF entry.notContains # <<>> /\ ~assertTextNotContainsAny(response, entry.notContains[1])
        THEN <<Msg("notContains", entry.url, entry.notContains[1][1])>> ELSE <<>>)

CurrentRequest == httpRequests[Len(httpRequests)]

\* request.successCallback
HttpSuccess ==
    /\ httpPc = "waiting"
    /\ UNCHANGED <<brVars, txVars, xpVars, snVars>>
    /\ CurrentRequest.url \in okUrls
    /\ UNCHANGED <<HttpConfig, httpOp, httpInput>>
    /\ \/ /\ httpOp = "assertUrlsFail"
          /\ UrlsFailRecursiveCaller(httpUrls,
                 Append(httpAnyErrors, Msg("URL expected to fail", CurrentRequest.url, <<>>)),
                 httpInFlight - 1)
       \/ /\ httpOp = "assertHttpRequests"
          /\ HttpRequestsRecursiveCaller(httpUrls,
                 httpAnyErrors \o ResponseFailures(httpEntry[1], ResponseBody(CurrentRequest.url)),
                 httpInFlight - 1)

\* request.errorCallback
HttpError ==
    /\ httpPc = "waiting"
    /\ UNCHANGED <<brVars, txVars, xpVars, snVars>>
    /\ CurrentRequest.url \notin okUrls
    /\ UNCHANGED <<HttpConfig, httpOp, httpInput>>
    /\ \/ /\ httpOp = "assertUrlsFail"
          /\ UrlsFailRecursiveCaller(httpUrls, httpAnyErrors, httpInFlight - 1)
       \/ /\ httpOp = "assertHttpRequests"
          /\ HttpRequestsRecursiveCaller(httpUrls,
                 Append(httpAnyErrors, Msg("Could not load url", CurrentRequest.url, <<>>)),
                 httpInFlight - 1)

----------------------------------------------------------------------------
(* The browser and the pages it can load *)

PageUrls == {A, B}

\* the page the browser ends on after driver.get(url): page A is a clean local file,
\* page B is served over http, shows a 404 title, logs console errors and opens a tab,
\* page L is a local file the browser is still loading: no title, a partial document and
\* a console error of a script
Page(url) ==
    IF url = A
    THEN [url |-> A, title |-> <<"t">>, html |-> <<"h", "a">>, source |-> <<"s", "a">>,
          local |-> TRUE, tabs |-> 1, logs |-> <<>>]
    ELSE IF url = L
    THEN [url |-> L, title |-> <<>>, html |-> <<"h">>, source |-> <<"s", "l">>,
          local |-> TRUE, tabs |-> 1,
          logs |-> << [level |-> "SEVERE", message |-> <<"e", "undefined">>] >>]
    ELSE [url |-> B, title |-> <<"404 Not Found">>, html |-> <<"x", "b">>,
          source |-> <<"x", "b">>, local |-> FALSE, tabs |-> 2,
          logs |-> << [level |-> "SEVERE", message |-> <<"m", "undefined">>],
                      [level |-> "WARNING", message |-> <<"k">>],
                      [level |-> "SEVERE", message |-> <<"k", "false">>] >>]

\* page L once document.readyState is 'complete'
LoadedPage == [Page(L) EXCEPT !.title = <<"t">>, !.html = <<"h", "l">>]

\* page L after a script of the page has changed its location, title and document
ScriptedPage ==
    [LoadedPage EXCEPT !.url = <<"l", "a">>, !.title = <<"u">>, !.html = <<"x", "l">>]

\* document.readyState === 'complete'
DocumentReady(page) == page # Page(L)

\* the browser before any url was loaded
BlankPage ==
    [url |-> <<"about:blank">>, title |-> <<>>, html |-> <<>>, source |-> <<>>,
     local |-> FALSE, tabs |-> 1, logs |-> <<>>]

----------------------------------------------------------------------------
(* The asserts object of assertBrowserState *)

AssertFields ==
    <<"url", "titleContains", "ignoreConsoleErrors", "sourceHtmlContains", "sourceHtmlRegExp",
      "sourceHtmlStartsWith", "sourceHtmlEndsWith", "sourceHtmlNotContains",
      "loadedHtmlStartsWith", "loadedHtmlEndsWith", "loadedHtmlContains", "loadedHtmlRegExp",
      "loadedHtmlNotContains", "tabsCount">>

LoadedFields ==
    {"loadedHtmlStartsWith", "loadedHtmlEndsWith", "loadedHtmlContains", "loadedHtmlRegExp",
     "loadedHtmlNotContains"}

SourceFields ==
    {"sourceHtmlStartsWith", "sourceHtmlEndsWith", "sourceHtmlContains", "sourceHtmlRegExp",
     "sourceHtmlNotContains"}

\* asserts.ignoreConsoleErrors: missing, true, false or an array of strings
IgnoreAbsent == [kind |-> "absent", list |-> <<>>]

IgnoreTrue == [kind |-> "true", list |-> <<>>]

IgnoreFalse == [kind |-> "false", list |-> <<>>]

IgnoreArray(list) == [kind |-> "array", list |-> list]

\* a field that is present with a value
Some(value) == <<value>>

\* an asserts object holding the given fields, each with a value page A satisfies
\* (loadedHtmlContains and sourceHtmlContains name the wildcard $: they need the table {$: 'a'})
MakeAsserts(fields, ignore, extraKeys) ==
    [url                   |-> IF "url" \in fields THEN Some(A) ELSE <<>>,
     titleContains         |-> IF "titleContains" \in fields THEN Some(<< <<"t">> >>) ELSE <<>>,
     ignoreConsoleErrors   |-> ignore,
     sourceHtmlContains    |-> IF "sourceHtmlContains" \in fields THEN Some(<< <<"s">>, W >>) ELSE <<>>,
     sourceHtmlRegExp      |-> IF "sourceHtmlRegExp" \in fields THEN Some(<<"s">>) ELSE <<>>,
     sourceHtmlStartsWith  |-> IF "sourceHtmlStartsWith" \in fields THEN Some(<<"s">>) ELSE <<>>,
     sourceHtmlEndsWith    |-> IF "sourceHtmlEndsWith" \in fields THEN Some(A) ELSE <<>>,
     sourceHtmlNotContains |-> IF "sourceHtmlNotContains" \in fields THEN Some(<< <<"x">> >>) ELSE <<>>,
     loadedHtmlStartsWith  |-> IF "loadedHtmlStartsWith" \in fields THEN Some(<<"h">>) ELSE <<>>,
     loadedHtmlEndsWith    |-> IF "loadedHtmlEndsWith" \in fields THEN Some(A) ELSE <<>>,
     loadedHtmlContains    |-> IF "loadedHtmlContains" \in fields THEN Some(<< <<"h">>, W >>) ELSE <<>>,
     loadedHtmlRegExp      |-> IF "loadedHtmlRegExp" \in fields THEN Some(<<"h">>) ELSE <<>>,
     loadedHtmlNotContains |-> IF "loadedHtmlNotContains" \in fields THEN Some(<< <<"x">> >>) ELSE <<>>,
     tabsCount             |-> IF "tabsCount" \in fields THEN Some(1) ELSE <<>>,
     extraKeys             |-> extraKeys]

AllAssertFields == {AssertFields[i] : i \in 1..Len(AssertFields)}

\* the key sets tried: none, each field alone, the loaded-page group, the source
\* group with and without the regular expression, and all of them
AssertFieldSets ==
    {{}}
    \cup {{f} : f \in (AllAssertFields \ {"ignoreConsoleErrors"})}
    \cup {(LoadedFields \ {"loadedHtmlRegExp"}) \cup {"url", "titleContains"},
          SourceFields, SourceFields \ {"sourceHtmlRegExp"},
          AllAssertFields \ {"ignoreConsoleErrors"}}

IgnoreValues == {IgnoreAbsent, IgnoreTrue, IgnoreFalse, IgnoreArray(<<>>), IgnoreArray(<< <<"k">> >>)}

AssertsUniverse ==
    {MakeAsserts(fields, ignore, extraKeys) :
        fields \in AssertFieldSets, ignore \in IgnoreValues,
        extraKeys \in {<<>>, <<"bogusField">>}}

\* the values of the instance-wide ignoreConsoleErrors list
InstanceIgnoreLists == {<<>>, << <<"m">> >>, << <<"z">> >>}

\* ObjectUtils.getKeys(asserts): the present fields in declaration order, then the others
AssertsHas(asserts, field) ==
    IF field = "ignoreConsoleErrors" THEN asserts.ignoreConsoleErrors.kind # "absent"
    ELSE asserts[field] # <<>>

AssertsKeys(asserts) ==
    SelectSeq(AssertFields, LAMBDA f : AssertsHas(asserts, f)) \o asserts.extraKeys

----------------------------------------------------------------------------
(* ObjectTestsManager *)

\* assertObjectProperties(object, keys, strict): <<>> when it returns, <<message>> when it throws
RECURSIVE FirstKeyNotIn(_, _)
FirstKeyNotIn(objectKeys, keys) ==
    IF objectKeys = <<>> THEN <<>>
    ELSE IF \E i \in 1..Len(keys) : keys[i] = objectKeys[1]
         THEN FirstKeyNotIn(Tail(objectKeys), keys)
         ELSE <<objectKeys[1]>>

\* assertObjectProperties without the loop over the keys of the object
assertObjectPropertiesLenient(objectKeys, keys, strict) ==
    LET missing == FirstKeyNotIn(keys, objectKeys)
    IN IF strict /\ missing # <<>>
       THEN <<Msg("key was not found on the object", <<>>, <<missing[1]>>)>>
       ELSE <<>>

\* assertObjectProperties that looks for unexpected keys before it looks for missing ones
assertObjectPropertiesUnexpectedFirst(objectKeys, keys, strict) ==
    LET missing == FirstKeyNotIn(keys, objectKeys)
        unexpected == FirstKeyNotIn(objectKeys, keys)
    IN IF unexpected # <<>>
       THEN <<Msg("Object has unexpected key", <<>>, <<unexpected[1]>>)>>
       ELSE IF strict /\ missing # <<>>
            THEN <<Msg("key was not found on the object", <<>>, <<missing[1]>>)>>
            ELSE <<>>

assertObjectProperties(objectKeys, keys, strict) ==
    LET missing == FirstKeyNotIn(keys, objectKeys)
        unexpected == FirstKeyNotIn(objectKeys, keys)
    IN IF strict /\ missing # <<>>
       THEN <<Msg("key was not found on the object", <<>>, <<missing[1]>>)>>
       ELSE IF unexpected # <<>>
            THEN <<Msg("Object has unexpected key", <<>>, <<unexpected[1]>>)>>
            ELSE <<>>

----------------------------------------------------------------------------
(* AutomatedBrowserManager.assertBrowserState: the checks *)

\* regExp.test(html) for a regular expression that is a literal text
RegExpTest(regExp, html) == IndexOf(html, regExp) >= 0

\* the errors validateHtml pushes, in the order it pushes them
validateHtml(html, url, startsWith, endsWith, notContains, contains, regExp) ==
    (IF startsWith # <<>> /\ ~assertTextStartsWith(html, startsWith[1])
     THEN <<Msg("Source expected to start with", url, startsWith[1])>> ELSE <<>>)
    \o (IF endsWith # <<>> /\ ~assertTextEndsWith(html, endsWith[1])
        THEN <<Msg("Source expected to end with", url, endsWith[1])>> ELSE <<>>)
    \o (IF notContains # <<>> /\ ~assertTextNotContainsAny(html, notContains[1])
        THEN <<Msg("Source NOT expected to contain", url, notContains[1][1])>> ELSE <<>>)
    \o (IF contains # <<>>
           /\ ~assertTextContainsAll(html, replaceWildCardsOnObject(contains, wildcards)[1], TRUE)
        THEN <<Msg("Error searching for", url, contains[1][1])>> ELSE <<>>)
    \o (IF regExp # <<>> /\ ~RegExpTest(regExp[1], html)
        THEN <<Msg("Source does not match rexExp", url, regExp[1])>> ELSE <<>>)

\* the fields validateHtml evaluates, in its order, for the loaded or the source html
LoadedFieldsInOrder ==
    <<"loadedHtmlStartsWith", "loadedHtmlEndsWith", "loadedHtmlNotContains",
      "loadedHtmlContains", "loadedHtmlRegExp">>

SourceFieldsInOrder ==
    <<"sourceHtmlStartsWith", "sourceHtmlEndsWith", "sourceHtmlNotContains",
      "sourceHtmlContains", "sourceHtmlRegExp">>

ValidatedFields(asserts, fieldsInOrder) ==
    SelectSeq(fieldsInOrder, LAMBDA f : asserts[f] # <<>>)

\* this.ignoreConsoleErrors.concat(asserts.ignoreConsoleErrors): an array argument adds
\* its elements, any other value is added as one element (undefined, false)
IgnoreConcat(instanceList, ignore) ==
    CASE ignore.kind = "array" -> instanceList \o ignore.list
      [] ignore.kind = "false" -> Append(instanceList, <<"false">>)
      [] OTHER -> Append(instanceList, UNDEFINED)

\* errorMustBeThrown for one SEVERE entry
ErrorMustBeThrown(logEntry, instanceList, ignore) ==
    IF Len(instanceList) > 0 \/ ignore.kind = "array"
    THEN LET all == IgnoreConcat(instanceList, ignore)
         IN ~\E i \in 1..Len(all) : IndexOf(logEntry.message, all[i]) >= 0
    ELSE TRUE

\* the errors the console check pushes for the log buffer
ConsoleErrors(entries, instanceList, ignore, browserUrl) ==
    IF ignore.kind = "true" THEN <<>>
    ELSE LET failing == SelectSeq(entries, LAMBDA e :
                            e.level = "SEVERE" /\ ErrorMustBeThrown(e, instanceList, ignore))
         IN [i \in 1..Len(failing) |->
                Msg("Browser console has shown an error", browserUrl, failing[i].message)]

\* the condition under which assertBrowserState finishes without reading the source:
\* (a && b && c && d), e  is a comma expression, its value is the value of e
SkipSourceChecks(asserts) ==
    LET noneOfTheFirstFour ==
            /\ asserts.sourceHtmlStartsWith = <<>>
            /\ asserts.sourceHtmlEndsWith = <<>>
            /\ asserts.sourceHtmlNotContains = <<>>
            /\ asserts.sourceHtmlContains = <<>>
        noRegExp == asserts.sourceHtmlRegExp = <<>>
    IN <<noneOfTheFirstFour, noRegExp>>[2]

----------------------------------------------------------------------------
(* AutomatedBrowserManager: the control state of a call *)

EmptyResults == [title |-> <<>>, source |-> <<>>, finalUrl |-> <<>>]

EmptyAsserts == MakeAsserts({}, IgnoreAbsent, <<>>)

\* the control state as one record
Cur ==
    [pc |-> brPc, loadCont |-> loadCont, loadResults |-> loadResults, absCont |-> absCont,
     absAsserts |-> absAsserts, absAnyErrors |-> absAnyErrors, absBrowserUrl |-> absBrowserUrl,
     absTrace |-> absTrace, batchUrls |-> batchUrls, batchEntry |-> batchEntry,
     batchAnyErrors |-> batchAnyErrors, navigations |-> brNavigations,
     asserted |-> brAsserted, thrown |-> brThrown, completed |-> brCompleted]

\* the control state a call starts from
Fresh ==
    [pc |-> "idle", loadCont |-> "caller", loadResults |-> EmptyResults, absCont |-> "caller",
     absAsserts |-> EmptyAsserts, absAnyErrors |-> <<>>, absBrowserUrl |-> <<>>,
     absTrace |-> <<>>, batchUrls |-> <<>>, batchEntry |-> <<>>, batchAnyErrors |-> <<>>,
     navigations |-> <<>>, asserted |-> <<>>, thrown |-> <<>>, completed |-> 0]

Apply(m) ==
    /\ brPc' = m.pc
    /\ loadCont' = m.loadCont
    /\ loadResults' = m.loadResults
    /\ absCont' = m.absCont
    /\ absAsserts' = m.absAsserts
    /\ absAnyErrors' = m.absAnyErrors
    /\ absBrowserUrl' = m.absBrowserUrl
    /\ absTrace' = m.absTrace
    /\ batchUrls' = m.batchUrls
    /\ batchEntry' = m.batchEntry
    /\ batchAnyErrors' = m.batchAnyErrors
    /\ brNavigations' = m.navigations
    /\ brAsserted' = m.asserted
    /\ brThrown' = m.thrown
    /\ brCompleted' = m.completed

BrError(type, method, messages) ==
    [type |-> type, method |-> method, count |-> Len(messages), messages |-> messages]

Throw(m, error) == [m EXCEPT !.pc = "thrown", !.thrown = <<error>>]

\* the completeCallback the caller passed
CallerCallback(m) == [m EXCEPT !.pc = "idle", !.completed = @ + 1]

\* loadUrl up to the call of driver.get
loadUrl(m, url, cont) ==
    [m EXCEPT !.pc = "load.get", !.loadCont = cont, !.loadResults = EmptyResults,
              !.navigations = Append(@, replaceWildCardsOnText(url, wildcards))]

\* assertBrowserState up to the call of waitTillBrowserReady
assertBrowserState(m, asserts, cont) ==
    [m EXCEPT !.pc = "abs.ready", !.absCont = cont, !.absAsserts = asserts,
              !.absAnyErrors = assertObjectProperties(AssertsKeys(asserts), AssertFields, FALSE),
              !.absBrowserUrl = <<>>,
              !.absTrace = <<"assertObjectProperties">>]

\* recursiveCaller of assertUrlsLoadOk leaving the url of the entry as the caller wrote it
LoadOkRecursiveCallerKeepingUrl(m) ==
    IF Len(m.batchUrls) <= 0
    THEN IF Len(m.batchAnyErrors) > 0
         THEN Throw([m EXCEPT !.batchEntry = <<>>],
                    BrError("aggregate", "assertUrlsLoadOk", m.batchAnyErrors))
         ELSE CallerCallback([m EXCEPT !.batchEntry = <<>>])
    ELSE LET entry == Head(m.batchUrls)
         IN loadUrl([m EXCEPT !.batchUrls = Tail(@), !.batchEntry = <<entry>>],
                    entry.url, "assertUrlsLoadOk")

\* recursiveCaller of assertUrlsLoadOk
LoadOkRecursiveCaller(m) ==
    IF Len(m.batchUrls) <= 0
    THEN IF Len(m.batchAnyErrors) > 0
         THEN Throw([m EXCEPT !.batchEntry = <<>>],
                    BrError("aggregate", "assertUrlsLoadOk", m.batchAnyErrors))
         ELSE CallerCallback([m EXCEPT !.batchEntry = <<>>])
    ELSE LET entry == [Head(m.batchUrls) EXCEPT !.url = replaceWildCardsOnText(@, wildcards)]
         IN loadUrl([m EXCEPT !.batchUrls = Tail(@), !.batchEntry = <<entry>>],
                    entry.url, "assertUrlsLoadOk")

\* recursiveCaller of assertUrlsRedirect giving up at the first failure
RedirectRecursiveCallerFailFast(m) ==
    IF Len(m.batchUrls) <= 0 \/ Len(m.batchAnyErrors) > 0
    THEN IF Len(m.batchAnyErrors) > 0
         THEN Throw([m EXCEPT !.batchEntry = <<>>],
                    BrError("aggregate", "assertUrlsRedirect", m.batchAnyErrors))
         ELSE CallerCallback([m EXCEPT !.batchEntry = <<>>])
    ELSE LET entry == [Head(m.batchUrls) EXCEPT
                          !.url = replaceWildCardsOnText(@, wildcards),
                          !.to = replaceWildCardsOnText(@, wildcards)]
         IN loadUrl([m EXCEPT !.batchUrls = Tail(@), !.batchEntry = <<entry>>],
                    entry.url, "assertUrlsRedirect")

\* recursiveCaller of assertUrlsRedirect
RedirectRecursiveCaller(m) ==
    IF Len(m.batchUrls) <= 0
    THEN IF Len(m.batchAnyErrors) > 0
         THEN Throw([m EXCEPT !.batchEntry = <<>>],
                    BrError("aggregate", "assertUrlsRedirect", m.batchAnyErrors))
         ELSE CallerCallback([m EXCEPT !.batchEntry = <<>>])
    ELSE LET entry == [Head(m.batchUrls) EXCEPT
                          !.url = replaceWildCardsOnText(@, wildcards),
                          !.to = replaceWildCardsOnText(@, wildcards)]
         IN loadUrl([m EXCEPT !.batchUrls = Tail(@), !.batchEntry = <<entry>>],
                    entry.url, "assertUrlsRedirect")

\* a finish closure that runs the callback whatever was recorded
finishWithoutErrorsTest(m) ==
    LET done == [m EXCEPT !.absTrace = Append(@, "finish")]
    IN IF m.absCont = "assertUrlsLoadOk"
       THEN LoadOkRecursiveCaller(done)
       ELSE CallerCallback(done)

\* the finish closure of assertBrowserState
finish(m) ==
    LET done == [m EXCEPT !.absTrace = Append(@, "finish")]
    IN IF Len(m.absAnyErrors) > 0
       THEN Throw(done, BrError("aggregate", "assertBrowserState", m.absAnyErrors))
       ELSE IF m.absCont = "assertUrlsLoadOk"
            THEN LoadOkRecursiveCaller(done)
            ELSE CallerCallback(done)

\* an entry of assertUrlsLoadOk is one object: its url key is also the url key of the asserts
EntryAsAsserts(entry) == [entry.asserts EXCEPT !.url = Some(entry.url)]

\* delete entry.url
DeleteUrl(asserts) == [asserts EXCEPT !.url = <<>>]

\* the completeCallback loadUrl was given
LoadUrlCallback(m) ==
    CASE m.loadCont = "assertUrlsLoadOk" ->
            assertBrowserState([m EXCEPT !.asserted = Append(@, Len(batchInput) - Len(m.batchUrls))],
                               DeleteUrl(EntryAsAsserts(m.batchEntry[1])),
                               "assertUrlsLoadOk")
      [] m.loadCont = "assertUrlsRedirect" ->
            LET entry == m.batchEntry[1]
                finalUrl == m.loadResults.finalUrl
            IN RedirectRecursiveCaller(
                   IF IndexOfFrom(finalUrl, entry.to, Len(finalUrl) - Len(entry.to)) = -1
                   THEN [m EXCEPT !.batchAnyErrors = Append(@,
                            [kind |-> "Url redirect failed", url |-> entry.url,
                             text |-> entry.to, was |-> finalUrl])]
                   ELSE m)
      [] OTHER -> CallerCallback(m)

----------------------------------------------------------------------------
(* AutomatedBrowserManager: the asynchronous steps *)

NavigableUrls == {A, B, L, <<"r">>}

\* where the browser ends after driver.get(url): url r redirects to page a
NavigationTarget(url) == IF url = <<"r">> THEN A ELSE url

\* what no asynchronous step of the manager assigns
ManagerFrame ==
    UNCHANGED <<wildcards, isAssertExceptionsEnabled, okUrls, ignoreConsoleErrors, httpCallVars,
                brCall, brCalls, batchInput, absStart, txVars, xpVars, snVars>>

\* the frame of a step that does not navigate
BrowserFrame == ManagerFrame /\ UNCHANGED <<brVisited, brEmitted>>

\* driver.get(url) is answered: the page is shown, or the promise is rejected
DriverGet ==
    /\ brPc = "load.get"
    /\ ManagerFrame
    /\ UNCHANGED <<logEntries, brEmitted>>
    /\ LET url == brNavigations[Len(brNavigations)]
       IN IF url \in NavigableUrls
          THEN /\ brPage' = Page(NavigationTarget(url))
               /\ brConsole' = brConsole \o Page(NavigationTarget(url)).logs
               /\ brVisited' = Append(brVisited, NavigationTarget(url))
               /\ Apply([Cur EXCEPT !.pc = "load.title"])
          ELSE /\ UNCHANGED <<brPage, brConsole, brVisited>>
               /\ Apply(Throw(Cur, BrError("Error in loadUrl", brCall, <<url>>)))

\* driver.getTitle() is answered
LoadUrlTitle ==
    /\ brPc = "load.title"
    /\ BrowserFrame
    /\ UNCHANGED <<logEntries, brPage, brConsole>>
    /\ Apply([Cur EXCEPT !.pc = "load.source", !.loadResults.title = brPage.title])

\* executeScript("return document.documentElement.outerHTML") is answered
LoadUrlSource ==
    /\ brPc = "load.source"
    /\ BrowserFrame
    /\ UNCHANGED <<logEntries, brPage, brConsole>>
    /\ Apply([Cur EXCEPT !.pc = "load.finalUrl", !.loadResults.source = brPage.html])

\* driver.getCurrentUrl() is answered
LoadUrlFinalUrl ==
    /\ brPc = "load.finalUrl"
    /\ BrowserFrame
    /\ UNCHANGED <<logEntries, brPage, brConsole>>
    /\ Apply([Cur EXCEPT !.pc = "load.logs", !.loadResults.finalUrl = brPage.url])

\* loadUrl adding the drained entries to the buffer instead of replacing it
LoadUrlLogsAppending ==
    /\ brPc = "load.logs"
    /\ BrowserFrame
    /\ UNCHANGED brPage
    /\ logEntries' = logEntries \o brConsole
    /\ brConsole' = <<>>
    /\ Apply([Cur EXCEPT !.pc = "load.ready"])

\* logs().get('browser') is answered: reading the browser log empties it
LoadUrlLogs ==
    /\ brPc = "load.logs"
    /\ BrowserFrame
    /\ UNCHANGED brPage
    /\ logEntries' = brConsole
    /\ brConsole' = <<>>
    /\ Apply([Cur EXCEPT !.pc = "load.ready"])

\* waitTillBrowserReady inside loadUrl is answered
LoadUrlReady ==
    /\ brPc = "load.ready"
    /\ DocumentReady(brPage)
    /\ BrowserFrame
    /\ UNCHANGED <<logEntries, brPage, brConsole>>
    /\ Apply(LoadUrlCallback(Cur))

\* driver.wait gives up after waitTimeout
ReadyTimeout ==
    /\ brPc \in {"load.ready", "abs.ready"}
    /\ BrowserFrame
    /\ UNCHANGED <<logEntries, brPage, brConsole>>
    /\ Apply(Throw(Cur, BrError("Error waiting for browser ready", brCall, <<>>)))

\* waitTillBrowserReady inside assertBrowserState is answered
AbsReady ==
    /\ brPc = "abs.ready"
    /\ DocumentReady(brPage)
    /\ BrowserFrame
    /\ UNCHANGED <<logEntries, brPage, brConsole>>
    /\ Apply([Cur EXCEPT !.pc = "abs.href", !.absTrace = Append(@, "ready")])

\* executeScript('return window.location.href') is answered
AbsHref ==
    /\ brPc = "abs.href"
    /\ BrowserFrame
    /\ UNCHANGED <<logEntries, brPage, brConsole>>
    /\ LET browserUrl == brPage.url
           checked == absAsserts.url # <<>>
           failed == checked /\ ~assertTextContainsAll(browserUrl,
                        <<replaceWildCardsOnText(absAsserts.url[1], wildcards)>>, TRUE)
       IN Apply([Cur EXCEPT
              !.pc = "abs.title",
              !.absBrowserUrl = <<browserUrl>>,
              !.absTrace = @ \o <<"href">> \o (IF checked THEN <<"url">> ELSE <<>>),
              !.absAnyErrors = @ \o (IF failed
                  THEN <<Msg("Browser URL does not contain", browserUrl, absAsserts.url[1])>>
                  ELSE <<>>)])

\* assertBrowserState checking the title the page had when the call started
AbsTitleAtStart ==
    /\ brPc = "abs.title"
    /\ BrowserFrame
    /\ UNCHANGED <<logEntries, brPage, brConsole>>
    /\ LET browserTitle == absStart[1].title
           browserUrl == absBrowserUrl[1]
           is404 == ~assertTextNotContainsAny(browserTitle,
                        << <<"404 Not Found">>, <<"Error 404 page">> >>)
           checked == absAsserts.titleContains # <<>>
           failed == checked /\ ~assertTextContainsAll(browserTitle, absAsserts.titleContains[1], TRUE)
       IN Apply([Cur EXCEPT
              !.pc = "abs.logs",
              !.absTrace = @ \o <<"title", "404">> \o (IF checked THEN <<"titleContains">> ELSE <<>>),
              !.absAnyErrors = @
                  \o (IF is404 THEN <<Msg("Unexpected 404 error found on browser title",
                                          browserUrl, browserTitle)>> ELSE <<>>)
                  \o (IF failed THEN <<Msg("Title does not contain", browserUrl,
                                           absAsserts.titleContains[1][1])>> ELSE <<>>)])

\* driver.getTitle() is answered
AbsTitle ==
    /\ brPc = "abs.title"
    /\ BrowserFrame
    /\ UNCHANGED <<logEntries, brPage, brConsole>>
    /\ LET browserTitle == brPage.title
           browserUrl == absBrowserUrl[1]
           is404 == ~assertTextNotContainsAny(browserTitle,
                        << <<"404 Not Found">>, <<"Error 404 page">> >>)
           checked == absAsserts.titleContains # <<>>
           failed == checked /\ ~assertTextContainsAll(browserTitle, absAsserts.titleContains[1], TRUE)
       IN Apply([Cur EXCEPT
              !.pc = "abs.logs",
              !.absTrace = @ \o <<"title", "404">> \o (IF checked THEN <<"titleContains">> ELSE <<>>),
              !.absAnyErrors = @
                  \o (IF is404 THEN <<Msg("Unexpected 404 error found on browser title",
                                          browserUrl, browserTitle)>> ELSE <<>>)
                  \o (IF failed THEN <<Msg("Title does not contain", browserUrl,
                                           absAsserts.titleContains[1][1])>> ELSE <<>>)])

\* logs().get('browser') is answered; the result of this.logEntries.concat(browserLogs)
\* is dropped, so logEntries keeps its value
AbsLogs ==
    /\ brPc = "abs.logs"
    /\ BrowserFrame
    /\ UNCHANGED <<logEntries, brPage>>
    /\ brConsole' = <<>>
    /\ Apply([Cur EXCEPT
           !.pc = "abs.html",
           !.absTrace = @ \o <<"logs", "console">>,
           !.absAnyErrors = @ \o ConsoleErrors(logEntries, ignoreConsoleErrors,
                                               absAsserts.ignoreConsoleErrors, absBrowserUrl[1])])

\* executeScript("return document.documentElement.outerHTML") is answered
AbsHtml ==
    /\ brPc = "abs.html"
    /\ BrowserFrame
    /\ UNCHANGED <<logEntries, brPage, brConsole>>
    /\ Apply([Cur EXCEPT
           !.pc = "abs.handles",
           !.absTrace = @ \o <<"html">> \o ValidatedFields(absAsserts, LoadedFieldsInOrder),
           !.absAnyErrors = @ \o validateHtml(brPage.html, absBrowserUrl[1],
               absAsserts.loadedHtmlStartsWith, absAsserts.loadedHtmlEndsWith,
               absAsserts.loadedHtmlNotContains, absAsserts.loadedHtmlContains,
               absAsserts.loadedHtmlRegExp)])

\* the source checks on the text read from the file or received over http
ValidateSource(m, html) ==
    [m EXCEPT
        !.absTrace = @ \o ValidatedFields(m.absAsserts, SourceFieldsInOrder),
        !.absAnyErrors = @ \o validateHtml(html, m.absBrowserUrl[1],
            m.absAsserts.sourceHtmlStartsWith, m.absAsserts.sourceHtmlEndsWith,
            m.absAsserts.sourceHtmlNotContains, m.absAsserts.sourceHtmlContains,
            m.absAsserts.sourceHtmlRegExp)]

\* driver.getAllWindowHandles() is answered
AbsHandles ==
    /\ brPc = "abs.handles"
    /\ BrowserFrame
    /\ UNCHANGED <<logEntries, brPage, brConsole>>
    /\ LET checked == absAsserts.tabsCount # <<>>
           failed == checked /\ absAsserts.tabsCount[1] # brPage.tabs
           m == [Cur EXCEPT
                    !.absTrace = @ \o <<"handles">> \o (IF checked THEN <<"tabsCount">> ELSE <<>>),
                    !.absAnyErrors = @ \o (IF failed
                        THEN <<Msg("Browser tabs count must be", absBrowserUrl[1],
                                   <<absAsserts.tabsCount[1]>>)>>
                        ELSE <<>>)]
       IN IF SkipSourceChecks(absAsserts)
          THEN Apply(finish(m))
          ELSE IF brPage.local /\ brPage.source # <<>>
               THEN Apply(finish(ValidateSource([m EXCEPT !.absTrace = Append(@, "readFileSync")],
                                                brPage.source)))
               ELSE Apply([m EXCEPT !.pc = "abs.source",
                                    !.absTrace = @ \o <<"readFileSync", "httpRequest">>])

\* the http request for the source is answered: successCallback or errorCallback, then
\* finallyCallback
AbsSourceResponse ==
    /\ brPc = "abs.source"
    /\ BrowserFrame
    /\ UNCHANGED <<logEntries, brPage, brConsole>>
    /\ IF absBrowserUrl[1] \in okUrls
       THEN Apply(finish(ValidateSource(Cur, Page(absBrowserUrl[1]).source)))
       ELSE Apply(finish([Cur EXCEPT !.absAnyErrors =
                Append(@, Msg("Could not load url", absBrowserUrl[1], <<>>))]))

----------------------------------------------------------------------------
(* HTTPTestsManager: the calls *)

\* the browser manager when nobody uses it
BrowserIdle ==
    /\ logEntries = <<>>
    /\ brPage = BlankPage
    /\ brConsole = <<>>
    /\ brCall = "none"
    /\ brCalls = 0
    /\ brPc = "idle"
    /\ loadCont = "caller"
    /\ loadResults = EmptyResults
    /\ absCont = "caller"
    /\ absAsserts = EmptyAsserts
    /\ absAnyErrors = <<>>
    /\ absBrowserUrl = <<>>
    /\ absTrace = <<>>
    /\ batchInput = <<>>
    /\ batchUrls = <<>>
    /\ batchEntry = <<>>
    /\ batchAnyErrors = <<>>
    /\ brNavigations = <<>>
    /\ brAsserted = <<>>
    /\ brThrown = <<>>
    /\ brCompleted = 0
    /\ brVisited = <<>>
    /\ brEmitted = <<>>
    /\ absStart = <<>>

\* the names a file of the snapshots folder can have: a path element and what follows it
SnapshotFileNames == {"a"} \X {".png", "-failedSnapshot.png", "-failedSnapshotDiff.png"}

\* assertSnapshot was not called, and no failed snapshot was ever saved
SnapshotIdle ==
    /\ snCall = <<>>
    /\ snPc = "idle"
    /\ snLocals = <<>>
    /\ snThrown = <<>>
    /\ snCallbacks = 0
    /\ snFiles = [name \in SnapshotFileNames |-> <<>>]
    /\ snCalls = 0

\* clickByXpath and clickById were not called
ClickIdle ==
    /\ ckCall = <<>>
    /\ ckLocals = <<>>
    /\ ckTrace = <<>>
    /\ ckCallbacks = 0

\* queryCalls was not called
QueryIdle ==
    /\ qcCall = <<>>
    /\ qcQueries = <<>>
    /\ qcStarted = <<>>
    /\ qcCompleted = 0

\* no element method of the browser manager was called
XpathIdle ==
    /\ xpCall = <<>>
    /\ xpPc = "idle"
    /\ xpLocals = <<>>
    /\ xpThrown = <<>>
    /\ xpCallbacks = <<>>
    /\ QueryIdle
    /\ ClickIdle

\* no StringTestsManager method was called
TextIdle ==
    /\ txOp = "none"
    /\ txArgs = <<>>
    /\ txPc = "idle"
    /\ txHeap = <<>>
    /\ txLocals = <<>>
    /\ txResult = <<>>
    /\ txErrors = <<>>

HttpInit ==
    /\ wildcards \in WildcardTables
    /\ isAssertExceptionsEnabled \in BOOLEAN
    /\ okUrls \in SUBSET ServedUrls
    /\ httpOp = "none"
    /\ httpPc = "idle"
    /\ httpInput = <<>>
    /\ httpUrls = <<>>
    /\ httpEntry = <<>>
    /\ httpInFlight = 0
    /\ httpRequests = <<>>
    /\ httpAnyErrors = <<>>
    /\ httpThrown = <<>>
    /\ httpCallbackArgs = <<>>
    /\ ignoreConsoleErrors = <<>>
    /\ BrowserIdle
    /\ TextIdle
    /\ XpathIdle
    /\ SnapshotIdle

CallAssertUrlsFail == \E urls \in HttpEntryLists : assertUrlsFail(urls)

CallAssertHttpRequests == \E urls \in HttpEntryLists : assertHttpRequests(urls)

HttpNext ==
    \/ CallAssertUrlsFail
    \/ CallAssertHttpRequests
    \/ HttpSuccess
    \/ HttpError

SpecHttp == HttpInit /\ [][HttpNext]_vars

----------------------------------------------------------------------------
(* AutomatedBrowserManager: the calls *)

\* the http batch methods are not in use while the browser manager is driven
HttpIdle ==
    /\ httpOp = "none"
    /\ httpPc = "idle"
    /\ httpInput = <<>>
    /\ httpUrls = <<>>
    /\ httpEntry = <<>>
    /\ httpInFlight = 0
    /\ httpRequests = <<>>
    /\ httpAnyErrors = <<>>
    /\ httpThrown = <<>>
    /\ httpCallbackArgs = <<>>

\* a call enters the manager: the caller waits for the callback of the previous one
BeginCall(method) ==
    /\ brPc = "idle"
    /\ brCalls < MaxCalls
    /\ brCall' = method
    /\ brCalls' = brCalls + 1
    /\ absStart' = IF method = "assertBrowserState" THEN <<brPage>> ELSE <<>>
    /\ UNCHANGED <<wildcards, isAssertExceptionsEnabled, okUrls, ignoreConsoleErrors,
                   httpCallVars, logEntries, brPage, brConsole, brVisited, brEmitted,
                   txVars, xpVars, snVars>>

LoadableUrls == {A, B, W, C}

CallLoadUrl ==
    \E url \in LoadableUrls :
        /\ BeginCall("loadUrl")
        /\ UNCHANGED batchInput
        /\ Apply(loadUrl(Fresh, url, "caller"))

CallAssertBrowserState ==
    \E asserts \in AssertsUniverse :
        /\ BeginCall("assertBrowserState")
        /\ UNCHANGED batchInput
        /\ Apply(assertBrowserState(Fresh, asserts, "caller"))

BrowserNext ==
    \/ CallLoadUrl
    \/ CallAssertBrowserState
    \/ DriverGet
    \/ LoadUrlTitle
    \/ LoadUrlSource
    \/ LoadUrlFinalUrl
    \/ LoadUrlLogs
    \/ LoadUrlReady
    \/ ReadyTimeout
    \/ AbsReady
    \/ AbsHref
    \/ AbsTitle
    \/ AbsLogs
    \/ AbsHtml
    \/ AbsHandles
    \/ AbsSourceResponse

BrowserInit ==
    /\ wildcards \in WildcardTables
    /\ isAssertExceptionsEnabled = TRUE
    /\ okUrls \in {ServedUrls, {A}}
    /\ ignoreConsoleErrors \in InstanceIgnoreLists
    /\ HttpIdle
    /\ BrowserIdle
    /\ TextIdle
    /\ XpathIdle
    /\ SnapshotIdle

SpecBrowser == BrowserInit /\ [][BrowserNext]_vars

\* the entry a script of the page writes to the console once the page is shown
LateLogEntry == [level |-> "SEVERE", message |-> <<"late">>]

\* the page writes to the console after loadUrl has read the browser log
ConsoleEmit ==
    /\ brPage.url \in PageUrls
    /\ brPc \in {"load.ready", "idle", "abs.ready", "abs.href", "abs.title", "abs.logs"}
    /\ brPc = "idle" => brCalls < MaxCalls
    /\ brEmitted = <<>>
    /\ brEmitted' = <<LateLogEntry>>
    /\ brConsole' = Append(brConsole, LateLogEntry)
    /\ UNCHANGED <<logEntries, brPage, brVisited>>
    /\ ManagerFrame
    /\ Apply(Cur)

ConsoleNext ==
    \/ BrowserNext
    \/ ConsoleEmit

\* a manager without wildcards whose pages may write to the console late
ConsoleInit ==
    /\ wildcards = <<>>
    /\ isAssertExceptionsEnabled = TRUE
    /\ okUrls = ServedUrls
    /\ ignoreConsoleErrors \in InstanceIgnoreLists
    /\ HttpIdle
    /\ BrowserIdle
    /\ TextIdle
    /\ XpathIdle
    /\ SnapshotIdle

SpecConsole == ConsoleInit /\ [][ConsoleNext]_vars

\* the entry page L writes to the console when its document completes
LoadLogEntry == [level |-> "WARNING", message |-> <<"loaded">>]

\* the document of page L completes: the title and the rest of the document arrive
PageLoads ==
    /\ brPage = Page(L)
    /\ brPage' = LoadedPage
    /\ brConsole' = Append(brConsole, LoadLogEntry)
    /\ UNCHANGED <<logEntries, brVisited, brEmitted>>
    /\ ManagerFrame
    /\ Apply(Cur)

\* a script of page L runs between two asynchronous steps of the manager
PageScript ==
    /\ brPage = LoadedPage
    /\ brPc # "thrown"
    /\ brPc = "idle" => brCalls < MaxCalls
    /\ brPage' = ScriptedPage
    /\ brConsole' = Append(brConsole, LateLogEntry)
    /\ UNCHANGED <<logEntries, brVisited, brEmitted>>
    /\ ManagerFrame
    /\ Apply(Cur)

LiveNext ==
    \/ BrowserNext
    \/ PageLoads
    \/ PageScript

\* a manager whose wildcard $ stands for the url of page L
LiveInit ==
    /\ wildcards = << [key |-> W, value |-> L] >>
    /\ isAssertExceptionsEnabled = TRUE
    /\ okUrls = ServedUrls
    /\ ignoreConsoleErrors \in {<<>>, << <<"z">> >>}
    /\ HttpIdle
    /\ BrowserIdle
    /\ TextIdle
    /\ XpathIdle
    /\ SnapshotIdle

SpecLive == LiveInit /\ [][LiveNext]_vars

----------------------------------------------------------------------------
(* AutomatedBrowserManager: the batch methods *)

\* the asserts an entry of assertUrlsLoadOk carries next to its url
LoadOkAsserts ==
    {EmptyAsserts,
     MakeAsserts({"titleContains"}, IgnoreAbsent, <<>>),
     MakeAsserts({"sourceHtmlRegExp"}, IgnoreTrue, <<>>),
     MakeAsserts({}, IgnoreAbsent, <<"bogusField">>)}

LoadOkEntries == {[url |-> u, asserts |-> a] : u \in {A, B, W, <<"r">>}, a \in LoadOkAsserts}

LoadOkEntryLists == SeqsUpTo(LoadOkEntries, MaxEntries)

RedirectEntries ==
    {[url |-> u, to |-> t] : u \in {A, B, W, <<"r">>}, t \in {A, B, W, <<"x", "a">>}}

RedirectEntryLists == SeqsUpTo(RedirectEntries, MaxEntries)

\* urls.map(l => l.url)
UrlsOf(urls) == [i \in 1..Len(urls) |-> urls[i].url]

\* a batch starts on a browser no call has used yet
BeginBatch(method, urls) ==
    /\ brCall = "none"
    /\ BeginCall(method)
    /\ batchInput' = urls

assertUrlsLoadOk(urls) ==
    /\ BeginBatch("assertUrlsLoadOk", urls)
    /\ IF HasDuplicateValues(UrlsOf(urls))
       THEN Apply(Throw(Fresh, BrError("duplicate", "assertUrlsLoadOk",
                                       GetDuplicateElements(UrlsOf(urls)))))
       ELSE Apply(LoadOkRecursiveCaller([Fresh EXCEPT !.batchUrls = urls]))

assertUrlsRedirect(urls) ==
    /\ BeginBatch("assertUrlsRedirect", urls)
    /\ IF HasDuplicateValues(UrlsOf(urls))
       THEN Apply(Throw(Fresh, BrError("duplicate", "assertUrlsRedirect",
                                       GetDuplicateElements(UrlsOf(urls)))))
       ELSE Apply(RedirectRecursiveCaller([Fresh EXCEPT !.batchUrls = urls]))

CallAssertUrlsLoadOk == \E urls \in LoadOkEntryLists : assertUrlsLoadOk(urls)

CallAssertUrlsRedirect == \E urls \in RedirectEntryLists : assertUrlsRedirect(urls)

BatchNext ==
    \/ CallAssertUrlsLoadOk
    \/ CallAssertUrlsRedirect
    \/ DriverGet
    \/ LoadUrlTitle
    \/ LoadUrlSource
    \/ LoadUrlFinalUrl
    \/ LoadUrlLogs
    \/ LoadUrlReady
    \/ ReadyTimeout
    \/ AbsReady
    \/ AbsHref
    \/ AbsTitle
    \/ AbsLogs
    \/ AbsHtml
    \/ AbsHandles
    \/ AbsSourceResponse

BatchInit ==
    /\ wildcards \in WildcardTables
    /\ isAssertExceptionsEnabled = TRUE
    /\ okUrls \in {ServedUrls, {A}}
    /\ ignoreConsoleErrors = <<>>
    /\ HttpIdle
    /\ BrowserIdle
    /\ TextIdle
    /\ XpathIdle
    /\ SnapshotIdle

SpecBatch == BatchInit /\ [][BatchNext]_vars

\* the five methods that end with a completion callback or an error, one manager in use
\* at a time
OutcomeNext ==
    \/ httpOp = "none" /\ brCall \in {"none", "assertBrowserState", "loadUrl"} /\ BrowserNext
    \/ httpOp = "none" /\ brCall \notin {"assertBrowserState", "loadUrl"} /\ BatchNext
    \/ brCall = "none" /\ HttpNext

OutcomeInit ==
    /\ wildcards = << [key |-> W, value |-> A] >>
    /\ isAssertExceptionsEnabled = TRUE
    /\ okUrls = {A}
    /\ ignoreConsoleErrors = <<>>
    /\ HttpIdle
    /\ BrowserIdle
    /\ TextIdle
    /\ XpathIdle
    /\ SnapshotIdle

SpecOutcome == OutcomeInit /\ [][OutcomeNext]_vars

----------------------------------------------------------------------------
(* Properties of assertBrowserState and assertUrlsLoadOk *)

\* assertBrowserState was called directly on a loaded page and ran to its finish closure
AbsEnded ==
    /\ brCall = "assertBrowserState"
    /\ brPage.url \in PageUrls
    /\ brPc \in {"idle", "thrown"}
    /\ absTrace # <<>>
    /\ absTrace[Len(absTrace)] = "finish"

\* the failures of the source fields: the source is the local file or the http response
ExpectedSourceErrors(asserts, page) ==
    IF \A i \in 1..Len(SourceFieldsInOrder) : asserts[SourceFieldsInOrder[i]] = <<>>
    THEN <<>>
    ELSE IF (page.local /\ page.source # <<>>) \/ page.url \in okUrls
         THEN validateHtml(IF page.local /\ page.source # <<>> THEN page.source
                           ELSE Page(page.url).source,
                           page.url, asserts.sourceHtmlStartsWith, asserts.sourceHtmlEndsWith,
                           asserts.sourceHtmlNotContains, asserts.sourceHtmlContains,
                           asserts.sourceHtmlRegExp)
         ELSE <<Msg("Could not load url", page.url, <<>>)>>

\* every failing check of the asserts against the page the browser shows
ExpectedErrors(asserts, page) ==
    assertObjectProperties(AssertsKeys(asserts), AssertFields, FALSE)
    \o (IF asserts.url # <<>>
           /\ IndexOf(page.url, replaceWildCardsOnText(asserts.url[1], wildcards)) < 0
        THEN <<Msg("Browser URL does not contain", page.url, asserts.url[1])>> ELSE <<>>)
    \o (IF IndexOf(page.title, <<"404 Not Found">>) >= 0
        THEN <<Msg("Unexpected 404 error found on browser title", page.url, page.title)>>
        ELSE <<>>)
    \o (IF asserts.titleContains # <<>>
           /\ \E i \in 1..Len(asserts.titleContains[1]) :
                  IndexOf(page.title, asserts.titleContains[1][i]) < 0
        THEN <<Msg("Title does not contain", page.url, asserts.titleContains[1][1])>> ELSE <<>>)
    \o ConsoleErrors(logEntries, ignoreConsoleErrors, asserts.ignoreConsoleErrors, page.url)
    \o validateHtml(page.html, page.url, asserts.loadedHtmlStartsWith, asserts.loadedHtmlEndsWith,
                    asserts.loadedHtmlNotContains, asserts.loadedHtmlContains,
                    asserts.loadedHtmlRegExp)
    \o (IF asserts.tabsCount # <<>> /\ asserts.tabsCount[1] # page.tabs
        THEN <<Msg("Browser tabs count must be", page.url, <<asserts.tabsCount[1]>>)>> ELSE <<>>)
    \o ExpectedSourceErrors(asserts, page)

\* C1: assertBrowserState evaluates every field present in the spec: the call ends with
\* one aggregate error that lists exactly the failing checks, and it succeeds only when
\* no check failed
C1_EveryFieldEvaluated ==
    AbsEnded =>
        IF ExpectedErrors(absAsserts, brPage) = <<>>
        THEN brPc = "idle" /\ brCompleted = 1 /\ brThrown = <<>>
        ELSE /\ brPc = "thrown"
             /\ brCompleted = 0
             /\ brThrown = <<BrError("aggregate", "assertBrowserState",
                                     ExpectedErrors(absAsserts, brPage))>>

\* assertUrlsLoadOk stopped: by the completion callback or by an assertion error
LoadOkEnded ==
    /\ brCall = "assertUrlsLoadOk"
    /\ \/ brPc = "idle" /\ brCompleted = 1
       \/ brPc = "thrown" /\ brThrown[1].type = "aggregate"

\* C2: in assertUrlsLoadOk a failing entry never stops the batch: when the call ends
\* every entry was navigated to and asserted once, in list order
C2_LoadOkProcessesEveryEntry ==
    LoadOkEnded =>
        /\ brAsserted = [i \in 1..Len(batchInput) |-> i]
        /\ Len(brNavigations) = Len(batchInput)

----------------------------------------------------------------------------
(* Properties of the HTTP batch methods *)

\* the batch ended without a duplicate-urls error
HttpBatchEnded ==
    /\ httpPc \in {"completed", "thrown", "crashed"}
    /\ httpThrown # <<>> => httpThrown[1].type # "duplicate"

\* C3: assertUrlsFail and assertHttpRequests have at most one request in flight, issue
\* the requests in list order, and end only after every entry of the list was requested
\* exactly once
C3_SequentialAndExhaustive ==
    /\ httpInFlight <= 1
    /\ httpPc = "waiting" => httpInFlight = 1
    /\ \A i \in 1..Len(httpRequests) : httpRequests[i].index = i
    /\ HttpBatchEnded => Len(httpRequests) = Len(httpInput)

\* the url of an entry, bare string or record, after wildcard substitution
SubstitutedUrl(entry) == replaceWildCardsOnText(entry.url, wildcards)

\* one message for every entry whose url the server answers with 200, in entry order
ExpectedUrlsFailErrors(urls) ==
    LET served == SelectSeq(urls, LAMBDA e : SubstitutedUrl(e) \in okUrls)
    IN [i \in 1..Len(served) |-> Msg("URL expected to fail", SubstitutedUrl(served[i]), <<>>)]

\* C4: at the end of assertUrlsFail the failure list holds exactly one message for
\* each entry (bare string or record) whose request was answered with success, naming
\* the substituted url, in entry order
C4_UrlsFailFailureList ==
    (httpOp = "assertUrlsFail" /\ HttpBatchEnded) =>
        httpAnyErrors = ExpectedUrlsFailErrors(httpInput)

\* C5: with isAssertExceptionsEnabled false a batch HTTP method raises no aggregate
\* error, and the completion callback receives the list of failure messages
C5_SwitchOffReturnsList ==
    (~isAssertExceptionsEnabled /\ httpOp # "none") =>
        /\ httpThrown # <<>> => httpThrown[1].type # "aggregate"
        /\ (httpUrls = <<>> /\ httpInFlight = 0 /\ httpAnyErrors # <<>>) =>
               (httpPc = "completed" /\ httpCallbackArgs = << <<httpAnyErrors>> >>)

\* the identity of an HTTP entry: its url plus its serialized POST parameters, if any
Identity(entry) ==
    IF entry.post # "none" /\ PostKeysCount(entry.post) > 0
    THEN entry.url \o JsonStringify(entry.post)
    ELSE entry.url

SameIdentityTwice(urls) ==
    \E i, j \in 1..Len(urls) : i < j /\ Identity(urls[i]) = Identity(urls[j])

SameUrlTwice(urls) ==
    \E i, j \in 1..Len(urls) : i < j /\ urls[i].url = urls[j].url

\* C6: a batch method called with two entries of the same identity raises the
\* duplicate-urls error synchronously, naming the duplicated url, before any request or
\* navigation
C6_DuplicatesRejected ==
    /\ (httpOp # "none" /\ SameIdentityTwice(httpInput)) =>
          /\ httpPc = "thrown"
          /\ httpThrown[1].type = "duplicate"
          /\ httpRequests = <<>>
          /\ \A i, j \in 1..Len(httpInput) :
                 (i < j /\ Identity(httpInput[i]) = Identity(httpInput[j])) =>
                     \E k \in 1..Len(httpThrown[1].messages) :
                         httpThrown[1].messages[k] = httpInput[i].url
    /\ (brCall \in {"assertUrlsLoadOk", "assertUrlsRedirect"} /\ SameUrlTwice(batchInput)) =>
          /\ brPc = "thrown"
          /\ brThrown[1].type = "duplicate"
          /\ brNavigations = <<>>

\* C7: a list of entries with pairwise different identities, bare strings included,
\* never raises the duplicate-urls error
C7_NoFalseDuplicates ==
    (httpOp # "none" /\ ~SameIdentityTwice(httpInput)) =>
        (httpThrown = <<>> \/ httpThrown[1].type # "duplicate")

\* C9: an entry record with a key outside the recognized field names produces the
\* failure 'Object has unexpected key: <key>', before any other failure of that entry
C9_UnexpectedKeyReported ==
    HttpBatchEnded =>
        \A i \in 1..Len(httpInput) :
            (httpInput[i].extraKeys # <<>> /\ \E r \in 1..Len(httpRequests) : httpRequests[r].index = i) =>
                \E k \in 1..Len(httpAnyErrors) :
                    /\ httpAnyErrors[k].kind = "Object has unexpected key"
                    /\ httpAnyErrors[k].text = <<httpInput[i].extraKeys[1]>>
                    /\ \A n \in 1..(k - 1) : httpAnyErrors[n].url # SubstitutedUrl(httpInput[i])

----------------------------------------------------------------------------
(* Properties of assertBrowserState: unknown keys and console errors *)

\* assertBrowserState was called directly with a key outside the recognized set
AbsWithUnknownKey == brCall = "assertBrowserState" /\ absAsserts.extraKeys # <<>>

UnknownKeyMessage == Msg("Object has unexpected key", <<>>, <<absAsserts.extraKeys[1]>>)

\* C8 as stated: assertBrowserState with an unknown key raises the key error on its own
\* and performs none of the other checks, the browser is not queried
C8_KeyErrorRaisedAlone ==
    AbsWithUnknownKey =>
        /\ brPc = "thrown"
        /\ brThrown = <<BrError("aggregate", "assertBrowserState", <<UnknownKeyMessage>>)>>
        /\ absTrace = <<"assertObjectProperties">>

\* C8 as amended: the key set is validated before the browser is queried and the message
\* naming the unknown key is the first failure recorded; the call never runs the
\* completion callback; the browser is then queried and the url, title, console, loaded
\* html and tabs checks are performed, and the key message is raised at the end as the
\* first message of the aggregate error, together with the other failures
C8_KeyErrorAggregated ==
    AbsWithUnknownKey =>
        /\ absTrace[1] = "assertObjectProperties"
        /\ absAnyErrors # <<>>
        /\ absAnyErrors[1] = UnknownKeyMessage
        /\ brCompleted = 0
        /\ brPc # "idle"
        /\ (brThrown # <<>> /\ brThrown[1].type = "aggregate") =>
              /\ brThrown[1].messages = absAnyErrors
              /\ brThrown[1].count = Len(absAnyErrors)
              /\ SelectSeq(absTrace, LAMBDA t : t \in {"href", "title", "logs", "html", "handles"})
                     = <<"href", "title", "logs", "html", "handles">>

\* an unknown key was reported at the end together with another failure
C8_Witness ==
    /\ AbsWithUnknownKey
    /\ brPc = "thrown"
    /\ brThrown[1].type = "aggregate"
    /\ brThrown[1].count >= 2
    /\ brThrown[1].messages[1] = UnknownKeyMessage

\* the ignore substrings configured for a call: the elements of the spec's list, when it
\* is a list, and of the instance-wide list
ConfiguredIgnores(instanceList, ignore) ==
    {instanceList[i] : i \in 1..Len(instanceList)}
    \cup (IF ignore.kind = "array" THEN {ignore.list[i] : i \in 1..Len(ignore.list)} ELSE {})

Excused(logEntry, instanceList, ignore) ==
    \/ ignore.kind = "true"
    \/ \E text \in ConfiguredIgnores(instanceList, ignore) : IndexOf(logEntry.message, text) >= 0

ConsoleFailureFor(logEntry) ==
    \E k \in 1..Len(absAnyErrors) :
        /\ absAnyErrors[k].kind = "Browser console has shown an error"
        /\ absAnyErrors[k].text = logEntry.message

\* C10: at the end of assertBrowserState a SEVERE entry of the log buffer has produced a
\* failure if and only if it is not excused (ignoreConsoleErrors true, or a configured
\* ignore substring contained in the message); entries below SEVERE produce none
C10_ConsoleErrorsExcused ==
    AbsEnded =>
        \A i \in 1..Len(logEntries) :
            ConsoleFailureFor(logEntries[i])
                <=> (/\ logEntries[i].level = "SEVERE"
                     /\ ~Excused(logEntries[i], ignoreConsoleErrors, absAsserts.ignoreConsoleErrors))

----------------------------------------------------------------------------
(* Properties of loadUrl *)

\* a loadUrl call of the caller has run its completion callback
LoadUrlCompleted == brCall = "loadUrl" /\ brPc = "idle" /\ brCompleted = 1

----------------------------------------------------------------------------
(* Properties of assertBrowserState: the source checks *)

\* assertBrowserState was called directly and ran to its finish closure
AbsFinished ==
    /\ brCall = "assertBrowserState"
    /\ absTrace # <<>>
    /\ absTrace[Len(absTrace)] = "finish"

HasSourceField(asserts) ==
    \E i \in 1..Len(SourceFieldsInOrder) : asserts[SourceFieldsInOrder[i]] # <<>>

\* the call tried to read the source: the local file first, then the http request
SourceFetched == \E i \in 1..Len(absTrace) : absTrace[i] = "readFileSync"

\* C12: assertBrowserState obtains the original source if and only if the spec has at
\* least one sourceHtml* field: none present, no file read nor request; any one present
\* (only sourceHtmlContains, say), the source is read and checked
C12_SourceFetchedIffSourceField ==
    AbsFinished => (SourceFetched <=> HasSourceField(absAsserts))

----------------------------------------------------------------------------
(* Properties of assertUrlsLoadOk and assertUrlsRedirect *)

\* assertUrlsLoadOk is asserting the entry it has just loaded, past the url check
LoadOkUrlCheckDone ==
    /\ brCall = "assertUrlsLoadOk"
    /\ brPc \in {"abs.title", "abs.logs", "abs.html", "abs.handles", "abs.source"}

\* C13: in assertUrlsLoadOk the url of an entry is asserted against the final url of the
\* browser: a navigation that ends on a url not containing the substituted url of the
\* entry (an unexpected redirect) records a failure for the entry
C13_LoadOkChecksEntryUrl ==
    (LoadOkUrlCheckDone /\ IndexOf(brPage.url, brNavigations[Len(brNavigations)]) < 0) =>
        \E k \in 1..Len(absAnyErrors) : absAnyErrors[k].kind = "Browser URL does not contain"


\* assertUrlsRedirect was called with a list without duplicate urls
RedirectRunning ==
    /\ brCall = "assertUrlsRedirect"
    /\ brThrown # <<>> => brThrown[1].type # "duplicate"

EndsWith(text, suffix) ==
    /\ Len(suffix) <= Len(text)
    /\ SubSeq(text, Len(text) - Len(suffix) + 1, Len(text)) = suffix

\* the failure of one entry {url, to}: none when the final url ends with the target
RedirectFailure(entry) ==
    LET url == replaceWildCardsOnText(entry.url, wildcards)
        to == replaceWildCardsOnText(entry.to, wildcards)
        finalUrl == Page(NavigationTarget(url)).url
    IN IF EndsWith(finalUrl, to) THEN <<>>
       ELSE << [kind |-> "Url redirect failed", url |-> url, text |-> to, was |-> finalUrl] >>

RECURSIVE RedirectFailures(_)
RedirectFailures(entries) ==
    IF entries = <<>> THEN <<>>
    ELSE RedirectFailure(Head(entries)) \o RedirectFailures(Tail(entries))

\* the number of entries whose loadUrl callback has run
RedirectProcessed == Len(batchInput) - Len(batchUrls) - Len(batchEntry)

\* C14: assertUrlsRedirect records a failure for an entry exactly when the final url does
\* not end with the substituted target, naming url, target and final url; the entries
\* are navigated in list order whatever failed before, and the aggregate error (or the
\* completion callback when nothing failed) comes only after the last entry
C14_RedirectFailures ==
    RedirectRunning =>
        /\ batchAnyErrors = RedirectFailures(SubSeq(batchInput, 1, RedirectProcessed))
        /\ brNavigations = [i \in 1..(Len(batchInput) - Len(batchUrls)) |->
                                replaceWildCardsOnText(batchInput[i].url, wildcards)]
        /\ (brPc = "thrown" /\ brThrown[1].type = "aggregate") =>
              /\ RedirectProcessed = Len(batchInput)
              /\ brThrown[1].messages = RedirectFailures(batchInput)
              /\ brThrown[1].count = Len(brThrown[1].messages)
              /\ brThrown[1].count > 0
              /\ brCompleted = 0
        /\ brCompleted > 0 =>
              /\ brCompleted = 1
              /\ RedirectProcessed = Len(batchInput)
              /\ RedirectFailures(batchInput) = <<>>
              /\ brThrown = <<>>

\* a list whose first entry failed to redirect and whose second entry redirected as
\* expected ended with the aggregate error
C14_Witness ==
    /\ RedirectRunning
    /\ brPc = "thrown"
    /\ brThrown[1].type = "aggregate"
    /\ Len(batchInput) = 2
    /\ RedirectFailure(batchInput[1]) # <<>>
    /\ RedirectFailure(batchInput[2]) = <<>>
    /\ batchInput[2].url = <<"r">>
    /\ Len(brNavigations) = 2

----------------------------------------------------------------------------
(* StringTestsManager: the calls *)

\* the texts under test
Texts == SeqsUpTo({"a", "b"}, MaxTextLen)

\* the fragments looked for; "A" differs from "a" by case only
TextFragments == {<<"a">>, <<"b">>, <<"a", "b">>, <<"b", "a">>, <<"A">>}

FragmentLists == SeqsUpTo(TextFragments, MaxFragments)

\* a toBeFound / notToBeFound argument: a list of strings or one string
FragmentArguments ==
    [isArray : {TRUE}, value : FragmentLists] \cup [isArray : {FALSE}, value : TextFragments]

\* the message argument: not given, without and with the $fragment wildcard
TextMessages == {<<>>, <<"m">>, <<"m", "$fragment">>}

\* wildcard tables in the order ObjectUtils.getKeys lists their keys
TextWildcardEntries == [key : {<<"a">>, <<"a", "a">>, <<"a", "b">>}, value : {<<>>, <<"a">>, <<"b">>}]

TextWildcardTables ==
    {t \in SeqsUpTo(TextWildcardEntries, MaxFragments) :
        \A i, j \in 1..Len(t) : i # j => t[i].key # t[j].key}

\* the objects handed to replaceWildCardsOnObject: a string, or an array held by reference 1
ObjectElements == {<<"a">>, <<"b", "a">>, <<"a", "a", "b">>}

WildcardObjects ==
    [isArray : {FALSE}, value : ObjectElements]
        \cup [isArray : {TRUE}, value : SeqsUpTo(ObjectElements, MaxFragments)]

\* ArrayUtils.isArray(toBeFound) ? toBeFound : [String(toBeFound)]
FragmentsArray(toBeFound) == IF toBeFound.isArray THEN toBeFound.value ELSE <<toBeFound.value>>

\* message = 'Text expected to contain: $fragment\nBut it didn't' when none is given
ContainsAllMessage(message) ==
    IF message = <<>> THEN <<"Text expected to contain: ", "$fragment", "But it didn't">> ELSE message

TextFrame ==
    UNCHANGED <<httpVars, brVars, xpVars, snVars>>

RunAssertTextContainsAll ==
    /\ txPc = "called"
    /\ txOp = "assertTextContainsAll"
    /\ txResult' = <<assertTextContainsAll(txArgs.text, FragmentsArray(txArgs.toBeFound),
                                           txArgs.strictOrder)>>
    /\ txErrors' = ContainsAllDiagnostics(txArgs.text, FragmentsArray(txArgs.toBeFound), <<>>,
                                          ContainsAllMessage(txArgs.message), txArgs.strictOrder)
    /\ txPc' = "done"
    /\ UNCHANGED <<txOp, txArgs, txHeap, txLocals>>
    /\ TextFrame

RunAssertTextNotContainsAny ==
    /\ txPc = "called"
    /\ txOp = "assertTextNotContainsAny"
    /\ txResult' = <<assertTextNotContainsAny(txArgs.text, FragmentsArray(txArgs.notToBeFound))>>
    /\ txErrors' = NotContainsAnyDiagnostics(txArgs.text, FragmentsArray(txArgs.notToBeFound),
                                             txArgs.message)
    /\ txPc' = "done"
    /\ UNCHANGED <<txOp, txArgs, txHeap, txLocals>>
    /\ TextFrame

\* replaceWildCardsOnText(text, wildcards), and the same call again on what it returned
RunReplaceWildCardsOnText ==
    /\ txOp = "replaceWildCardsOnText"
    /\ \/ /\ txPc = "called"
          /\ txResult' = <<replaceWildCardsOnText(txArgs.text, txArgs.wildcards)>>
          /\ txPc' = "returned"
       \/ /\ txPc = "returned"
          /\ txResult' = Append(txResult, replaceWildCardsOnText(txResult[1], txArgs.wildcards))
          /\ txPc' = "done"
    /\ UNCHANGED <<txOp, txArgs, txHeap, txLocals, txErrors>>
    /\ TextFrame

\* a clone that hands back the reference it was given
ObjectCloneSameReference(heap, object) ==
    [heap |-> heap, cloned |-> object]

\* ObjectUtils.clone(object): a string is a value, an array is copied to a new reference
ObjectClone(heap, object) ==
    IF object.isArray
    THEN [heap |-> Append(heap, heap[object.ref]), cloned |-> [isArray |-> TRUE, ref |-> Len(heap) + 1]]
    ELSE [heap |-> heap, cloned |-> object]

\* let cloned = ObjectUtils.clone(object), and the string branch
ReplaceWildCardsOnObjectBegin ==
    /\ txPc = "called"
    /\ txOp = "replaceWildCardsOnObject"
    /\ LET c == ObjectClone(txHeap, txArgs.object)
       IN IF c.cloned.isArray
          THEN /\ txHeap' = c.heap
               /\ txLocals' = [cloned |-> c.cloned, i |-> 0]
               /\ txPc' = "loop"
               /\ UNCHANGED txResult
          ELSE /\ txResult' = <<[isArray |-> FALSE,
                                 value |-> replaceWildCardsOnText(c.cloned.value, txArgs.wildcards)]>>
               /\ txPc' = "done"
               /\ UNCHANGED <<txHeap, txLocals>>
    /\ UNCHANGED <<txOp, txArgs, txErrors>>
    /\ TextFrame

\* cloned[i] = this.replaceWildCardsOnText(cloned[i], wildcards); i++
ReplaceWildCardsOnObjectLoop ==
    /\ txPc = "loop"
    /\ txLocals.i < Len(txHeap[txLocals.cloned.ref])
    /\ LET ref == txLocals.cloned.ref
           i == txLocals.i + 1
       IN txHeap' = [txHeap EXCEPT ![ref][i] = replaceWildCardsOnText(txHeap[ref][i], txArgs.wildcards)]
    /\ txLocals' = [txLocals EXCEPT !.i = @ + 1]
    /\ UNCHANGED <<txOp, txArgs, txPc, txResult, txErrors>>
    /\ TextFrame

\* return cloned
ReplaceWildCardsOnObjectReturn ==
    /\ txPc = "loop"
    /\ txLocals.i >= Len(txHeap[txLocals.cloned.ref])
    /\ txResult' = <<txLocals.cloned>>
    /\ txPc' = "done"
    /\ UNCHANGED <<txOp, txArgs, txHeap, txLocals, txErrors>>
    /\ TextFrame

\* ObjectTestsManager.assertObjectProperties(object, keys, strict): returns or throws
RunAssertObjectProperties ==
    /\ txPc = "called"
    /\ txOp = "assertObjectProperties"
    /\ txErrors' = assertObjectProperties(txArgs.objectKeys, txArgs.keys, txArgs.strict)
    /\ txPc' = "done"
    /\ UNCHANGED <<txOp, txArgs, txHeap, txLocals, txResult>>
    /\ TextFrame

TextNext ==
    \/ RunAssertObjectProperties
    \/ RunAssertTextContainsAll
    \/ RunAssertTextNotContainsAny
    \/ RunReplaceWildCardsOnText
    \/ ReplaceWildCardsOnObjectBegin
    \/ ReplaceWildCardsOnObjectLoop
    \/ ReplaceWildCardsOnObjectReturn

\* lists of key names without repetition: the keys of an object, or a keys argument
KeyLists ==
    {k \in SeqsUpTo({"a", "b", "c"}, MaxFragments) : \A i, j \in 1..Len(k) : i # j => k[i] # k[j]}

\* one call of one method, with its arguments
TextCalls ==
    [op : {"assertObjectProperties"}, objectKeys : KeyLists, keys : KeyLists, strict : BOOLEAN]
    \cup
    [op : {"assertTextContainsAll"}, text : Texts, toBeFound : FragmentArguments,
     message : TextMessages, strictOrder : BOOLEAN]
    \cup [op : {"assertTextNotContainsAny"}, text : Texts, notToBeFound : FragmentArguments,
          message : TextMessages]
    \cup [op : {"replaceWildCardsOnText"}, text : Texts, wildcards : TextWildcardTables]
    \cup {[op |-> "replaceWildCardsOnObject",
           object |-> IF o.isArray THEN [isArray |-> TRUE, ref |-> 1, value |-> o.value] ELSE o,
           wildcards |-> w] : o \in WildcardObjects, w \in TextWildcardTables}

TextInit ==
    /\ HttpIdle
    /\ BrowserIdle
    /\ XpathIdle
    /\ SnapshotIdle
    /\ wildcards = <<>>
    /\ isAssertExceptionsEnabled = TRUE
    /\ okUrls = ServedUrls
    /\ ignoreConsoleErrors = <<>>
    /\ \E call \in TextCalls :
        /\ txOp = call.op
        /\ txArgs = call
        /\ txHeap = IF call.op = "replaceWildCardsOnObject" /\ call.object.isArray
                    THEN <<call.object.value>> ELSE <<>>
    /\ txPc = "called"
    /\ txLocals = <<>>
    /\ txResult = <<>>
    /\ txErrors = <<>>

SpecText == TextInit /\ [][TextNext]_vars

----------------------------------------------------------------------------
(* Properties of the StringTestsManager assertions *)

ContainsAllDone ==
    /\ txOp = "assertTextContainsAll"
    /\ txPc = "done"

\* occurrences of the fragments can be chosen at non-decreasing positions, from position from on
RECURSIVE OccurInOrder(_, _, _)
OccurInOrder(text, fragments, from) ==
    IF fragments = <<>> THEN TRUE
    ELSE LET idx == IndexOfFrom(text, fragments[1], from)
         IN idx >= 0 /\ OccurInOrder(text, Tail(fragments), idx)

\* two fragments of the list are both in the text, but only in the reverse order
OnlyInReverseOrder(text, fragments) ==
    \E i, j \in 1..Len(fragments) :
        /\ i < j
        /\ IndexOf(text, fragments[i]) >= 0
        /\ IndexOf(text, fragments[j]) >= 0
        /\ ~OccurInOrder(text, <<fragments[i], fragments[j]>>, 0)

\* C15: with strictOrder = true assertTextContainsAll succeeds whenever the fragments occur
\* in the text in the order of the list (occurrences at non-decreasing positions), and it
\* fails when two present fragments occur only in the reverse order.
C15_StrictOrderAccepted ==
    (ContainsAllDone /\ txArgs.strictOrder) =>
        LET fragments == FragmentsArray(txArgs.toBeFound)
        IN /\ OccurInOrder(txArgs.text, fragments, 0) => txResult[1]
           /\ OnlyInReverseOrder(txArgs.text, fragments) => ~txResult[1]

\* fragment is a substring of text
IsSubstring(text, fragment) ==
    \E i \in 0..Len(text) : MatchesAt(text, fragment, i)

\* the lists that hold the elements of list in another order
Reorderings(list) ==
    LET n == Len(list)
    IN {[i \in 1..n |-> list[p[i]]] :
            p \in {q \in [1..n -> 1..n] : \A i, j \in 1..n : i # j => q[i] # q[j]}}

\* C16: with strictOrder = false assertTextContainsAll succeeds if and only if every fragment
\* is a substring of the text, whatever the order of the list (every permutation of the list
\* gives the same outcome); a single string counts as the list of that one string.
C16_AnyOrderContainsAll ==
    (ContainsAllDone /\ ~txArgs.strictOrder) =>
        LET given == txArgs.toBeFound
            fragments == IF given.isArray THEN {given.value[i] : i \in 1..Len(given.value)}
                         ELSE {given.value}
        IN /\ txResult[1] = (\A f \in fragments : IsSubstring(txArgs.text, f))
           /\ given.isArray =>
                \A other \in Reorderings(given.value) :
                    assertTextContainsAll(txArgs.text, other, FALSE) = txResult[1]

\* two fragments found although the text holds them in the reverse order only
C16_Witness ==
    /\ ContainsAllDone
    /\ ~txArgs.strictOrder
    /\ txArgs.toBeFound.isArray
    /\ Len(txArgs.toBeFound.value) = MaxFragments
    /\ OnlyInReverseOrder(txArgs.text, txArgs.toBeFound.value)
    /\ txResult = <<TRUE>>
    /\ txErrors = <<>>

NotContainsAnyDone ==
    /\ txOp = "assertTextNotContainsAny"
    /\ txPc = "done"

\* the fragments of the notToBeFound argument that are in the text, in list order
PresentFragments ==
    SelectSeq(FragmentsArray(txArgs.notToBeFound), LAMBDA f : IsSubstring(txArgs.text, f))

\* assertTextNotContainsAny succeeds if and only if no fragment is a substring of the text,
\* and it reports one error for each fragment of the list that is
NotContainsAnyOutcome ==
    /\ txResult[1] = (PresentFragments = <<>>)
    /\ Len(txErrors) = Len(PresentFragments)

\* C17 as stated: assertTextNotContainsAny succeeds if and only if none of the fragments is a
\* (case-sensitive) substring of the text; when it fails it reports one error for each fragment
\* of the list that is in the text, and the diagnostic of each contains that fragment.
C17_DiagnosticNamesFragment ==
    NotContainsAnyDone =>
        /\ NotContainsAnyOutcome
        /\ \A k \in 1..Len(txErrors) : IsSubstring(txErrors[k], PresentFragments[k])

\* C17 amended: the outcome and the number of errors are as stated; the diagnostic is the
\* caller's message with $fragment replaced by the fragment, so it contains the fragment
\* when the message holds $fragment and is the message itself when it does not.
C17_DiagnosticIsCallersMessage ==
    NotContainsAnyDone =>
        /\ NotContainsAnyOutcome
        /\ \A k \in 1..Len(txErrors) :
              IF IsSubstring(txArgs.message, <<"$fragment">>)
              THEN /\ IsSubstring(txErrors[k], PresentFragments[k])
                   /\ ~IsSubstring(txErrors[k], <<"$fragment">>)
              ELSE txErrors[k] = txArgs.message

\* "a" is reported and "A" is not, for a text that holds "a" only
C17_Witness ==
    /\ NotContainsAnyDone
    /\ txArgs.notToBeFound.isArray
    /\ txArgs.notToBeFound.value = << <<"A">>, <<"a">> >>
    /\ txArgs.message = <<"m", "$fragment">>
    /\ txResult = <<FALSE>>
    /\ txErrors = << <<"m", "a">> >>

----------------------------------------------------------------------------
(* Properties of the wildcard replacement *)

\* replaceWildCardsOnText returned at least once
ReplaceTextReturned ==
    /\ txOp = "replaceWildCardsOnText"
    /\ txPc \in {"returned", "done"}

\* C18: the result of replaceWildCardsOnText does not depend on the order of the keys of the
\* wildcard table, also when one key is a prefix of another: the same text with the same
\* keys and values listed in any other order gives the same result.
C18_KeyOrderIrrelevant ==
    ReplaceTextReturned =>
        \A other \in Reorderings(txArgs.wildcards) :
            replaceWildCardsOnText(txArgs.text, other) = txResult[1]

\* replaceWildCardsOnText was applied to the text and then to its own result
ReplaceTextTwice ==
    /\ txOp = "replaceWildCardsOnText"
    /\ txPc = "done"

\* some key of the table is a substring of text
HoldsKey(text, table) ==
    \E i \in 1..Len(table) : IsSubstring(text, table[i].key)

\* no replacement value of the table contains a key of the table
NoValueHoldsKey(table) ==
    \A i \in 1..Len(table) : ~HoldsKey(table[i].value, table)

\* C19 as stated: a text that contains no key of the table is returned unchanged; and when no
\* replacement value of the table contains a key of the table, replacing twice gives the same
\* text as replacing once.
C19_IdempotentWhenValuesHoldNoKey ==
    /\ (ReplaceTextReturned /\ ~HoldsKey(txArgs.text, txArgs.wildcards)) => txResult[1] = txArgs.text
    /\ (ReplaceTextTwice /\ NoValueHoldsKey(txArgs.wildcards)) => txResult[2] = txResult[1]

\* C19 amended: a text that contains no key of the table is returned unchanged; and replacing
\* twice gives the same text as replacing once whenever the text returned by the first
\* replacement contains no key of the table.
C19_IdempotentWhenResultHoldsNoKey ==
    /\ (ReplaceTextReturned /\ ~HoldsKey(txArgs.text, txArgs.wildcards)) => txResult[1] = txArgs.text
    /\ (ReplaceTextTwice /\ ~HoldsKey(txResult[1], txArgs.wildcards)) => txResult[2] = txResult[1]

\* a text with a key in it was changed by the first replacement and not by the second
C19_Witness ==
    /\ ReplaceTextTwice
    /\ Len(txArgs.wildcards) = MaxFragments
    /\ HoldsKey(txArgs.text, txArgs.wildcards)
    /\ txResult[1] # txArgs.text
    /\ ~HoldsKey(txResult[1], txArgs.wildcards)
    /\ txResult[2] = txResult[1]

\* replaceWildCardsOnObject was called with an array and has cloned it
ReplaceObjectRunning ==
    /\ txOp = "replaceWildCardsOnObject"
    /\ txArgs.object.isArray
    /\ txPc \in {"loop", "done"}

ReplaceObjectDone ==
    /\ txOp = "replaceWildCardsOnObject"
    /\ txPc = "done"

\* C20: replaceWildCardsOnObject never modifies its input: the array passed in holds the same
\* elements while the call runs and after it; the value returned is a new one, a string with
\* the wildcards replaced or an array of the same length whose elements are those of the
\* input, in the same order, with the wildcards replaced.
C20_InputNotModified ==
    LET object == txArgs.object
        result == txResult[1]
    IN /\ ReplaceObjectRunning => txHeap[object.ref] = object.value
       /\ (ReplaceObjectDone /\ object.isArray) =>
            /\ result.isArray
            /\ result.ref # object.ref
            /\ Len(txHeap[result.ref]) = Len(object.value)
            /\ \A i \in 1..Len(object.value) :
                  txHeap[result.ref][i] = replaceWildCardsOnText(object.value[i], txArgs.wildcards)
       /\ (ReplaceObjectDone /\ ~object.isArray) =>
            /\ ~result.isArray
            /\ result.value = replaceWildCardsOnText(object.value, txArgs.wildcards)

\* an array whose every element holds a wildcard: the copy returned differs, the input does not
C20_Witness ==
    /\ ReplaceObjectDone
    /\ txArgs.object.isArray
    /\ Len(txArgs.object.value) = MaxFragments
    /\ \A i \in 1..Len(txArgs.object.value) :
          txHeap[txResult[1].ref][i] # txArgs.object.value[i]
    /\ txHeap[txArgs.object.ref] = txArgs.object.value

----------------------------------------------------------------------------
(* Properties of assertObjectProperties *)

ObjectPropertiesDone ==
    /\ txOp = "assertObjectProperties"
    /\ txPc = "done"

\* the elements of list that are not elements of among, in the order of list
NotAmong(list, among) ==
    SelectSeq(list, LAMBDA k : \A i \in 1..Len(among) : among[i] # k)

\* C21: assertObjectProperties throws if and only if the object has a key that is not in keys,
\* or strict is true and a name of keys is missing from the object; in strict mode the missing
\* names are looked for first, so the error names the first missing name in keys order also
\* when the object has an unexpected key; otherwise it names the first unexpected key; with
\* strict = false an object whose keys are a subset of keys (the empty object too) is accepted.
C21_ObjectPropertiesOutcome ==
    ObjectPropertiesDone =>
        LET missing == NotAmong(txArgs.keys, txArgs.objectKeys)
            unexpected == NotAmong(txArgs.objectKeys, txArgs.keys)
        IN /\ (txErrors # <<>>) = (unexpected # <<>> \/ (txArgs.strict /\ missing # <<>>))
           /\ (txArgs.strict /\ missing # <<>>) =>
                txErrors = <<Msg("key was not found on the object", <<>>, <<missing[1]>>)>>
           /\ (unexpected # <<>> /\ ~(txArgs.strict /\ missing # <<>>)) =>
                txErrors = <<Msg("Object has unexpected key", <<>>, <<unexpected[1]>>)>>
           /\ (~txArgs.strict /\ unexpected = <<>>) => txErrors = <<>>

\* a strict call on an object with a missing and an unexpected key: the missing one is reported
C21_Witness ==
    /\ ObjectPropertiesDone
    /\ txArgs.strict
    /\ txArgs.objectKeys = <<"a", "b">>
    /\ txArgs.keys = <<"c", "a">>
    /\ txErrors = <<Msg("key was not found on the object", <<>>, <<"c">>)>>

----------------------------------------------------------------------------
(* Properties of assertUrlsFail: the expectations of an entry *)

\* the body the server sends with an error status
ErrorResponseBody == <<"Not Found">>

\* the request of entry i was made and its errorCallback ran
RequestFailed(i) ==
    /\ i <= Len(httpRequests)
    /\ httpRequests[i].url \notin okUrls
    /\ (i < Len(httpRequests) \/ httpPc # "waiting")

\* C28: in assertUrlsFail, when the request of an entry fails as expected, the optional
\* expectations of the entry are validated against the error response: an entry whose error
\* body lacks a fragment of its contains list records a failure for that entry.
C28_FailedRequestValidated ==
    (httpOp = "assertUrlsFail" /\ HttpBatchEnded) =>
        \A i \in 1..Len(httpInput) :
            (/\ RequestFailed(i)
             /\ httpInput[i].contains # <<>>
             /\ ~assertTextContainsAll(ErrorResponseBody, httpInput[i].contains[1], TRUE))
            => \E k \in 1..Len(httpAnyErrors) : httpAnyErrors[k].kind = "contains"

----------------------------------------------------------------------------
(* Properties of assertBrowserState: console entries written after the load *)

\* C30: the console check of assertBrowserState inspects every console entry produced since
\* the last loadUrl: a SEVERE entry the browser wrote after loadUrl had read the log, and that
\* assertBrowserState has read from the browser, makes the call fail unless it is excused.
C30_LateConsoleErrorsChecked ==
    (AbsEnded /\ brConsole = <<>> /\ Len(brVisited) = 1) =>
        \A i \in 1..Len(brEmitted) :
            ~Excused(brEmitted[i], ignoreConsoleErrors, absAsserts.ignoreConsoleErrors)
                => ConsoleFailureFor(brEmitted[i])

----------------------------------------------------------------------------
(* AutomatedBrowserManager: the element methods *)

\* the xpaths of the tests: an input, a hidden element, a disabled input, no element
Xpaths == {"input", "hidden", "disabled", "nonexistant"}

ElementExists(xpath) == xpath # "nonexistant"

ElementVisible(xpath) == xpath \in {"input", "disabled"}

ElementEnabled(xpath) == xpath \in {"input", "hidden"}

\* what the driver is asked about an element, and whether the page satisfies it
ConditionHolds(request, xpath) ==
    CASE request = "located" -> ElementExists(xpath)
      [] request = "visible" -> ElementVisible(xpath)
      [] request = "notVisible" -> ~ElementVisible(xpath)
      [] request = "enabled" -> ElementEnabled(xpath)
      [] request = "disabled" -> ~ElementEnabled(xpath)
      [] OTHER -> FALSE

\* an xpaths argument: a list of xpaths or one xpath
XpathArguments ==
    [isArray : {TRUE}, value : SeqsUpTo(Xpaths, MaxEntries)] \cup [isArray : {FALSE}, value : Xpaths]

XpathCalls ==
    [op : {"assertExistXpath", "assertVisibleXpath", "assertClickableXpath"},
     xpaths : XpathArguments, flag : BOOLEAN]
    \cup [op : {"sendKeysByXpath", "clearInputByXpath", "getAttributeByXpath"},
          xpaths : [isArray : {FALSE}, value : Xpaths], flag : {TRUE}]
    \cup [op : {"waitTillBrowserReady"}, xpaths : [isArray : {TRUE}, value : {<<>>}], flag : {TRUE}]

\* a negative visibility assertion that does not wait for the element to be located
XpathRoundsNegativeWithoutLocated(call) ==
    CASE call.op = "assertExistXpath" -> IF call.flag THEN <<"located">> ELSE <<"find">>
      [] call.op = "assertVisibleXpath" ->
            IF call.flag THEN <<"located", "visible">> ELSE <<"notVisible">>
      [] call.op = "assertClickableXpath" ->
            <<"located", "visible", IF call.flag THEN "enabled" ELSE "disabled">>
      [] call.op = "sendKeysByXpath" -> <<"located", "sendKeys">>
      [] call.op = "clearInputByXpath" -> <<"located", "clear", "sendKeys">>
      [] call.op = "getAttributeByXpath" -> <<"located", "getAttribute">>
      [] OTHER -> <<>>

\* the driver requests a method makes for each xpath, one round after the other
XpathRounds(call) ==
    CASE call.op = "assertExistXpath" -> IF call.flag THEN <<"located">> ELSE <<"find">>
      [] call.op = "assertVisibleXpath" ->
            <<"located", IF call.flag THEN "visible" ELSE "notVisible">>
      [] call.op = "assertClickableXpath" ->
            <<"located", "visible", IF call.flag THEN "enabled" ELSE "disabled">>
      [] call.op = "sendKeysByXpath" -> <<"located", "sendKeys">>
      [] call.op = "clearInputByXpath" -> <<"located", "clear", "sendKeys">>
      [] call.op = "getAttributeByXpath" -> <<"located", "getAttribute">>
      [] OTHER -> <<>>

\* the error a method throws when a wait of it is rejected
XpathError(op, request, xpath) ==
    [kind |-> CASE request = "ready" -> "Error waiting for browser ready"
                [] request = "visible" -> "Expected to be visible"
                [] request = "notVisible" -> "Expected to be NON visible"
                [] request = "enabled" -> "Expected to be clickable"
                [] request = "disabled" -> "Expected to be NON clickable"
                [] op = "sendKeysByXpath" -> "Error trying to send input by"
                [] op = "clearInputByXpath" -> "Error trying to clear input by"
                [] op = "getAttributeByXpath" -> "Error trying to get attribute by"
                [] OTHER -> "Error trying to find xpath",
     xpath |-> xpath]

\* what completeCallback receives
XpathCallbackArguments(op, elemensFound) ==
    CASE op \in {"assertExistXpath", "assertVisibleXpath", "assertClickableXpath"} -> elemensFound
      [] op = "getAttributeByXpath" -> <<"attributeValue">>
      [] OTHER -> <<>>

\* the state of a call as one record
XpCur == [pc |-> xpPc, locals |-> xpLocals, thrown |-> xpThrown, callbacks |-> xpCallbacks]

\* recursiveCaller: the next driver request, the next round, or completeCallback
RECURSIVE XpathRecursiveCaller(_, _)
XpathRecursiveCaller(m, op) ==
    LET l == m.locals
    IN IF l.index >= Len(l.xpathsArray)
       THEN IF l.rounds = <<>>
            THEN [m EXCEPT !.pc = "done",
                           !.callbacks = Append(@, XpathCallbackArguments(op, l.elemensFound))]
            ELSE XpathRecursiveCaller([m EXCEPT !.locals.index = 0,
                                                !.locals.request = Head(l.rounds),
                                                !.locals.rounds = Tail(l.rounds)], op)
       ELSE [m EXCEPT !.pc = l.request]

\* the xpath the driver is being asked about
XpathAsked == xpLocals.xpathsArray[xpLocals.index + 1]

XpathFrame ==
    UNCHANGED <<httpVars, brVars, txVars, snVars>>

\* a method run up to its first driver request
XpathStart(call, m) ==
    IF call.op = "waitTillBrowserReady"
    THEN [m EXCEPT !.pc = "ready"]
    ELSE LET xpathsArray == IF call.xpaths.isArray THEN call.xpaths.value
                            ELSE <<call.xpaths.value>>
             rounds == XpathRounds(call)
         IN XpathRecursiveCaller(
                [m EXCEPT !.locals = [xpathsArray |-> xpathsArray, index |-> 0,
                                      elemensFound |-> <<>>,
                                      exist |-> IF call.op = "assertExistXpath"
                                                THEN call.flag ELSE TRUE,
                                      request |-> Head(rounds), rounds |-> Tail(rounds)]],
                call.op)

\* the methods of the class that queryCalls finds by name
MethodNames ==
    {"assertExistXpath", "assertVisibleXpath", "assertClickableXpath", "sendKeysByXpath",
     "clearInputByXpath", "getAttributeByXpath", "waitTillBrowserReady"}

\* functionObject.length: the parameters of the method, completeCallback included
FunctionLength(functionName) ==
    CASE functionName = "waitTillBrowserReady" -> 1
      [] functionName = "clearInputByXpath" -> 2
      [] OTHER -> 3

\* a query: the method name and the arguments (an xpath and a flag, as the method takes
\* them); length is that of the query array
Queries ==
    [functionName : {"assertExistXpath"}, xpath : Xpaths, flag : BOOLEAN, length : {3}]
    \cup [functionName : {"assertVisibleXpath"}, xpath : {"input", "hidden"}, flag : {TRUE},
          length : {3}]
    \cup [functionName : {"sendKeysByXpath"}, xpath : {"input"}, flag : {TRUE}, length : {3}]
    \cup [functionName : {"waitTillBrowserReady"}, xpath : {""}, flag : {TRUE}, length : {1, 2}]
    \cup [functionName : {"assertExistXpath", "nonexistantMethod"}, xpath : {"input"},
          flag : {TRUE}, length : {2}]

\* the call that functionObject.apply makes for a query
QueryCall(query) ==
    [op |-> query.functionName,
     xpaths |-> IF query.functionName = "waitTillBrowserReady"
                THEN [isArray |-> TRUE, value |-> <<>>]
                ELSE [isArray |-> FALSE, value |-> query.xpath],
     flag |-> query.flag]

\* the catch that surrounds the handler in which completeCallback runs throws its own
\* error about whatever was thrown in it
QueryErrorWrapper ==
    IF xpPc \in {"located", "visible", "notVisible", "enabled", "disabled", "ready"}
    THEN <<XpathError(xpCall.op, xpPc, IF xpPc = "ready" THEN "" ELSE XpathAsked)>>
    ELSE <<>>

\* every query is applied, whatever its method name and its number of arguments
RECURSIVE QueryRecursiveCallerUnchecked(_)
QueryRecursiveCallerUnchecked(s) ==
    IF s.queries = <<>>
    THEN [s EXCEPT !.completed = @ + 1, !.xp.pc = "done"]
    ELSE LET query == Head(s.queries)
             call == QueryCall(query)
         IN IF query.functionName \notin MethodNames
            THEN QueryRecursiveCallerUnchecked(
                     [s EXCEPT !.queries = Tail(@), !.started = Append(@, query)])
            ELSE LET m == XpathStart(call, [s.xp EXCEPT !.pc = "called", !.locals = <<>>])
                     started == [s EXCEPT !.xp = m, !.call = call,
                                          !.started = Append(@, query)]
                 IN IF m.pc = "done"
                    THEN QueryRecursiveCallerUnchecked([started EXCEPT !.queries = Tail(@)])
                    ELSE started

\* recursiveCaller of queryCalls: runs completeCallback when no query is left, else applies
\* the method of the first query, whose completeCallback is recursiveCaller on the rest
RECURSIVE QueryRecursiveCaller(_)
QueryRecursiveCaller(s) ==
    IF s.queries = <<>>
    THEN [s EXCEPT !.completed = @ + 1, !.xp.pc = "done"]
    ELSE LET query == Head(s.queries)
             call == QueryCall(query)
         IN IF query.functionName \notin MethodNames
            THEN [s EXCEPT !.xp.pc = "thrown",
                           !.xp.thrown = s.wrapper \o
                               <<[kind |-> "Specified method to query does not exist",
                                  xpath |-> ""]>>]
            ELSE IF FunctionLength(query.functionName) # query.length
            THEN [s EXCEPT !.xp.pc = "thrown",
                           !.xp.thrown = s.wrapper \o
                               <<[kind |-> "Method expects arguments, but received",
                                  xpath |-> ""]>>]
            ELSE LET m == XpathStart(call, [s.xp EXCEPT !.pc = "called", !.locals = <<>>])
                     started == [s EXCEPT !.xp = m, !.call = call,
                                          !.started = Append(@, query)]
                 IN IF m.pc = "done"
                    THEN QueryRecursiveCaller([started EXCEPT !.queries = Tail(@)])
                    ELSE started

\* the state a handler leaves: when the method was applied by queryCalls, its
\* completeCallback is recursiveCaller on the queries that follow; when it was called by
\* _clickByXpathAux, its completeCallback asks the driver to click the element
XpApply(m) ==
    LET s == [xp |-> m, call |-> xpCall, queries |-> qcQueries, started |-> qcStarted,
              completed |-> qcCompleted, wrapper |-> QueryErrorWrapper]
        t == IF qcCall # <<>> /\ m.pc = "done"
             THEN QueryRecursiveCaller([s EXCEPT !.queries = Tail(@)])
             ELSE s
        answered == IF ckCall # <<>> /\ m.pc # "thrown"
                    THEN <<[event |-> xpPc, xpath |-> XpathAsked]>> ELSE <<>>
    IN /\ xpPc' = IF ckCall # <<>> /\ m.pc = "done" THEN "click" ELSE t.xp.pc
       /\ xpLocals' = t.xp.locals
       /\ xpThrown' = t.xp.thrown
       /\ xpCallbacks' = IF ckCall # <<>> THEN xpCallbacks ELSE t.xp.callbacks
       /\ xpCall' = t.call
       /\ qcQueries' = t.queries
       /\ qcStarted' = t.started
       /\ qcCompleted' = t.completed
       /\ qcCall' = qcCall
       /\ ckTrace' = ckTrace \o answered \o
                        (IF ckCall # <<>> /\ m.pc = "done"
                         THEN <<[event |-> "click", xpath |-> XpathAsked]>> ELSE <<>>)
       /\ UNCHANGED <<ckCall, ckLocals, ckCallbacks>>

\* the method runs up to its first driver request
XpathBegin ==
    /\ xpPc = "called"
    /\ qcCall = <<>>
    /\ ckCall = <<>>
    /\ XpathFrame
    /\ XpApply(XpathStart(xpCall, XpCur))

\* queryCalls(queries, completeCallback): recursiveCaller on the whole list
QueryCalls ==
    /\ xpPc = "called"
    /\ qcCall # <<>>
    /\ XpathFrame
    /\ UNCHANGED <<ckCall, ckLocals, ckTrace, ckCallbacks>>
    /\ LET t == QueryRecursiveCaller(
                    [xp |-> XpCur, call |-> xpCall, queries |-> qcCall[1], started |-> <<>>,
                     completed |-> 0, wrapper |-> <<>>])
       IN /\ xpPc' = t.xp.pc
          /\ xpLocals' = t.xp.locals
          /\ xpThrown' = t.xp.thrown
          /\ xpCallbacks' = t.xp.callbacks
          /\ xpCall' = t.call
          /\ qcQueries' = t.queries
          /\ qcStarted' = t.started
          /\ qcCompleted' = t.completed
          /\ qcCall' = qcCall

\* driver.wait(until.elementLocated(By.xpath(...)), waitTimeout) is fulfilled
XpathElementLocated ==
    /\ xpPc = "located"
    /\ ConditionHolds("located", XpathAsked)
    /\ XpathFrame
    /\ XpApply(XpathRecursiveCaller(
           [XpCur EXCEPT !.locals.elemensFound = Append(@, [xpath |-> XpathAsked]),
                         !.locals.index = @ + 1], xpCall.op))

\* findElement whose answer is not looked at: the next xpath is tried whatever was found
XpathFindElementIgnoringFound ==
    /\ xpPc = "find"
    /\ XpathFrame
    /\ XpApply(XpathRecursiveCaller([XpCur EXCEPT !.locals.index = @ + 1], xpCall.op))

\* driver.findElement(By.xpath(...)) is answered, for an xpath expected not to exist
XpathFindElement ==
    /\ xpPc = "find"
    /\ XpathFrame
    /\ IF ElementExists(XpathAsked)
       THEN XpApply([XpCur EXCEPT
                !.pc = "thrown", !.locals.exist = TRUE,
                !.thrown = <<[kind |-> "Expected xpath to NOT exist, but existed",
                              xpath |-> XpathAsked]>>])
       ELSE XpApply(XpathRecursiveCaller([XpCur EXCEPT !.locals.index = @ + 1], xpCall.op))

\* driver.wait(until.elementIsVisible / NotVisible / Enabled / Disabled, waitTimeout) is fulfilled
XpathElementState ==
    /\ xpPc \in {"visible", "notVisible", "enabled", "disabled"}
    /\ ConditionHolds(xpPc, XpathAsked)
    /\ XpathFrame
    /\ XpApply(XpathRecursiveCaller([XpCur EXCEPT !.locals.index = @ + 1], xpCall.op))

\* element.sendKeys / clear / getAttribute is answered: a hidden or disabled element
\* cannot be typed into, and nothing handles that rejection
XpathElementAction ==
    /\ xpPc \in {"sendKeys", "clear", "getAttribute"}
    /\ XpathFrame
    /\ IF xpPc = "getAttribute" \/ (ElementVisible(XpathAsked) /\ ElementEnabled(XpathAsked))
       THEN XpApply(XpathRecursiveCaller([XpCur EXCEPT !.locals.index = @ + 1], xpCall.op))
       ELSE XpApply([XpCur EXCEPT !.pc = "thrown",
                        !.thrown = <<[kind |-> "element not interactable", xpath |-> ""]>>])

\* the page reaches readyState complete before waitTimeout
XpathBrowserReady ==
    /\ xpPc = "ready"
    /\ XpathFrame
    /\ XpApply([XpCur EXCEPT !.pc = "done", !.callbacks = Append(@, <<>>)])

\* completeCallback run also when the wait expires
XpathWaitExpiresQuietly ==
    /\ \/ xpPc = "ready"
       \/ xpPc \in {"located", "visible", "notVisible", "enabled", "disabled"}
            /\ ~ConditionHolds(xpPc, XpathAsked)
    /\ XpathFrame
    /\ XpApply([XpCur EXCEPT !.pc = "done", !.callbacks = Append(@, <<>>)])

\* driver.wait gives up after waitTimeout: the promise is rejected and the catch throws
XpathWaitExpires ==
    /\ \/ xpPc = "ready"
       \/ xpPc \in {"located", "visible", "notVisible", "enabled", "disabled"}
            /\ ~ConditionHolds(xpPc, XpathAsked)
    /\ XpathFrame
    /\ XpApply([XpCur EXCEPT
           !.pc = "thrown",
           !.thrown = <<XpathError(xpCall.op, xpPc,
                                   IF xpPc = "ready" THEN "" ELSE XpathAsked)>>])

XpathNext ==
    \/ XpathBegin
    \/ XpathElementLocated
    \/ XpathFindElement
    \/ XpathElementState
    \/ XpathElementAction
    \/ XpathBrowserReady
    \/ XpathWaitExpires

XpathInit ==
    /\ wildcards = <<>>
    /\ isAssertExceptionsEnabled = TRUE
    /\ okUrls = ServedUrls
    /\ ignoreConsoleErrors = <<>>
    /\ HttpIdle
    /\ BrowserIdle
    /\ TextIdle
    /\ xpCall \in XpathCalls
    /\ xpPc = "called"
    /\ xpLocals = <<>>
    /\ xpThrown = <<>>
    /\ xpCallbacks = <<>>
    /\ QueryIdle
    /\ ClickIdle
    /\ SnapshotIdle

SpecXpath == XpathInit /\ [][XpathNext]_vars

\* the retries _clickByXpathAux is given by clickByXpath
ClickAttempts == 5

\* the xpath that clickById builds for an id: it selects the element that has the id, and the
\* elements of the page are named here by what selects them
XpathOfId(id) == id

\* the calls of clickByXpath and clickById: a list of xpaths or ids, or a single one
ClickCalls == [op : {"clickByXpath", "clickById"}, xpaths : XpathArguments]

\* the click is asked at once, without assertClickableXpath
ClickByXpathAuxWithoutWait(c, xpath, attempts) ==
    [c EXCEPT !.locals.attempts = attempts, !.xp.pc = "click",
              !.trace = Append(@, [event |-> "click", xpath |-> xpath])]

\* _clickByXpathAux(xpath, attempts, ...) up to the first driver request of assertClickableXpath
ClickByXpathAux(c, xpath, attempts) ==
    LET call == [op |-> "assertClickableXpath", xpaths |-> [isArray |-> FALSE, value |-> xpath],
                 flag |-> TRUE]
    IN [c EXCEPT !.call = call, !.locals.attempts = attempts,
                 !.xp = XpathStart(call, [c.xp EXCEPT !.pc = "called", !.locals = <<>>])]

\* the click of every xpath is tried once only
ClickRecursiveCallerWithoutRetry(c, index) ==
    IF index >= Len(c.locals.xpathsArray)
    THEN [c EXCEPT !.xp.pc = "done", !.callbacks = @ + 1, !.locals.index = index]
    ELSE ClickByXpathAux([c EXCEPT !.locals.index = index], c.locals.xpathsArray[index + 1], 0)

\* recursiveCaller of clickByXpath
ClickRecursiveCaller(c, index) ==
    IF index >= Len(c.locals.xpathsArray)
    THEN [c EXCEPT !.xp.pc = "done", !.callbacks = @ + 1, !.locals.index = index]
    ELSE ClickByXpathAux([c EXCEPT !.locals.index = index], c.locals.xpathsArray[index + 1],
                         ClickAttempts)

\* the state of a click call as one record
ClickCur ==
    [xp |-> XpCur, call |-> xpCall, locals |-> ckLocals, trace |-> ckTrace,
     callbacks |-> ckCallbacks]

ClickApply(c) ==
    /\ xpPc' = c.xp.pc
    /\ xpLocals' = c.xp.locals
    /\ xpThrown' = c.xp.thrown
    /\ xpCallbacks' = c.xp.callbacks
    /\ xpCall' = c.call
    /\ ckLocals' = c.locals
    /\ ckTrace' = c.trace
    /\ ckCallbacks' = c.callbacks
    /\ UNCHANGED <<ckCall, qcCall, qcQueries, qcStarted, qcCompleted>>

\* clickByXpath(xpaths, completeCallback), and clickById, which builds the xpaths of its ids
ClickByXpath ==
    /\ xpPc = "called"
    /\ ckCall # <<>>
    /\ XpathFrame
    /\ LET given == IF ckCall.xpaths.isArray THEN ckCall.xpaths.value
                    ELSE <<ckCall.xpaths.value>>
           xpathsArray == IF ckCall.op = "clickById"
                          THEN [i \in 1..Len(given) |-> XpathOfId(given[i])] ELSE given
       IN ClickApply(ClickRecursiveCaller(
              [ClickCur EXCEPT !.locals = [xpathsArray |-> xpathsArray, index |-> 0,
                                           attempts |-> ClickAttempts]], 0))

\* the xpath that _clickByXpathAux was given
ClickAsked == ckLocals.xpathsArray[ckLocals.index + 1]

\* elements[0].click() is fulfilled: waitMilliseconds(1500, ...) is asked
ClickFulfilled ==
    /\ xpPc = "click"
    /\ XpathFrame
    /\ ClickApply([ClickCur EXCEPT
           !.xp.pc = "wait",
           !.trace = Append(@, [event |-> "clicked", xpath |-> ClickAsked])])

\* elements[0].click() is rejected: another attempt, or the error when none is left
ClickRejected ==
    /\ xpPc = "click"
    /\ XpathFrame
    /\ LET rejected == [ClickCur EXCEPT
                           !.trace = Append(@, [event |-> "click failed", xpath |-> ClickAsked])]
       IN IF ckLocals.attempts <= 0
          THEN ClickApply([rejected EXCEPT
                   !.xp.pc = "thrown",
                   !.xp.thrown = <<[kind |-> "Error trying to click by", xpath |-> ClickAsked]>>])
          ELSE ClickApply(ClickByXpathAux(rejected, ClickAsked, ckLocals.attempts - 1))

\* the timer of waitMilliseconds fires: recursiveCaller(index + 1, completeCallback)
ClickWaited ==
    /\ xpPc = "wait"
    /\ XpathFrame
    /\ ClickApply(ClickRecursiveCaller(ClickCur, ckLocals.index + 1))

ClickNext ==
    \/ ClickByXpath
    \/ XpathElementLocated
    \/ XpathElementState
    \/ XpathWaitExpires
    \/ ClickFulfilled
    \/ ClickRejected
    \/ ClickWaited

ClickInit ==
    /\ wildcards = <<>>
    /\ isAssertExceptionsEnabled = TRUE
    /\ okUrls = ServedUrls
    /\ ignoreConsoleErrors = <<>>
    /\ HttpIdle
    /\ BrowserIdle
    /\ TextIdle
    /\ SnapshotIdle
    /\ QueryIdle
    /\ xpCall = <<>>
    /\ xpPc = "called"
    /\ xpLocals = <<>>
    /\ xpThrown = <<>>
    /\ xpCallbacks = <<>>
    /\ ckCall \in ClickCalls
    /\ ckLocals = <<>>
    /\ ckTrace = <<>>
    /\ ckCallbacks = 0

SpecClick == ClickInit /\ [][ClickNext]_vars

\* every driver request and every timer is answered
SpecClickFair == SpecClick /\ WF_vars(ClickNext)

QueryNext ==
    \/ QueryCalls
    \/ XpathElementLocated
    \/ XpathFindElement
    \/ XpathElementState
    \/ XpathElementAction
    \/ XpathBrowserReady
    \/ XpathWaitExpires

QueryInit ==
    /\ wildcards = <<>>
    /\ isAssertExceptionsEnabled = TRUE
    /\ okUrls = ServedUrls
    /\ ignoreConsoleErrors = <<>>
    /\ HttpIdle
    /\ BrowserIdle
    /\ TextIdle
    /\ xpCall = <<>>
    /\ xpPc = "called"
    /\ xpLocals = <<>>
    /\ xpThrown = <<>>
    /\ xpCallbacks = <<>>
    /\ qcCall \in {<<queries>> : queries \in SeqsUpTo(Queries, MaxCalls)}
    /\ qcQueries = <<>>
    /\ qcStarted = <<>>
    /\ qcCompleted = 0
    /\ ClickIdle
    /\ SnapshotIdle

SpecQuery == QueryInit /\ [][QueryNext]_vars

\* every driver request is answered or expires
SpecXpathFair == SpecXpath /\ WF_vars(XpathNext)

----------------------------------------------------------------------------
(* Properties of the element methods *)

XpathEnded == xpPc \in {"done", "thrown"}

\* the xpaths of the call, a single string being the list of that string
CalledXpaths == IF xpCall.xpaths.isArray THEN xpCall.xpaths.value ELSE <<xpCall.xpaths.value>>

\* the positions of the list whose xpath is, or is not, on the page
PositionsWhere(list, exists) == {i \in 1..Len(list) : ElementExists(list[i]) = exists}

FirstOf(positions) == CHOOSE i \in positions : \A j \in positions : i <= j

\* C23: assertExistXpath checks the xpaths in list order. With exist = true it succeeds only if
\* every xpath is located, and the callback receives one located element per xpath, in order;
\* otherwise it fails naming the first xpath that was not found. With exist = false it
\* succeeds, passing an empty list, only if none of the xpaths is found; otherwise it fails
\* naming the first xpath that exists, the remaining xpaths are not checked and the callback is
\* not called.
C23_ExistXpathOutcome ==
    (xpCall # <<>> /\ xpCall.op = "assertExistXpath" /\ XpathEnded) =>
        LET unwanted == PositionsWhere(CalledXpaths, ~xpCall.flag)
        IN IF unwanted = {}
           THEN /\ xpPc = "done"
                /\ xpThrown = <<>>
                /\ xpCallbacks = << IF xpCall.flag
                                    THEN [i \in 1..Len(CalledXpaths) |-> [xpath |-> CalledXpaths[i]]]
                                    ELSE <<>> >>
           ELSE /\ xpPc = "thrown"
                /\ xpCallbacks = <<>>
                /\ xpThrown[1].xpath = CalledXpaths[FirstOf(unwanted)]
                /\ xpThrown[1].kind = IF xpCall.flag THEN "Error trying to find xpath"
                                      ELSE "Expected xpath to NOT exist, but existed"
                /\ xpLocals.index = FirstOf(unwanted) - 1

\* an xpath that exists, listed after one that does not, makes exist = false fail
C23_Witness ==
    /\ xpCall # <<>>
    /\ xpCall.op = "assertExistXpath"
    /\ ~xpCall.flag
    /\ xpCall.xpaths.isArray
    /\ xpCall.xpaths.value = <<"nonexistant", "input">>
    /\ xpPc = "thrown"
    /\ xpThrown = <<[kind |-> "Expected xpath to NOT exist, but existed", xpath |-> "input"]>>
    /\ xpCallbacks = <<>>

\* the errors thrown when a wait for an element expires
ElementWaitErrors ==
    {"Error trying to find xpath", "Expected to be visible", "Expected to be NON visible",
     "Expected to be clickable", "Expected to be NON clickable", "Error trying to send input by",
     "Error trying to clear input by", "Error trying to get attribute by"}

WaitExpired ==
    /\ xpPc = "thrown"
    /\ xpThrown[1].kind \in ElementWaitErrors \cup {"Error waiting for browser ready"}

\* the methods that begin by waiting for each of their xpaths to be located
WaitsForLocated ==
    \/ xpCall.op \in {"assertVisibleXpath", "assertClickableXpath", "sendKeysByXpath",
                      "clearInputByXpath", "getAttributeByXpath"}
    \/ xpCall.op = "assertExistXpath" /\ xpCall.flag

\* C29: every operation that waits on the browser ends. It ends with its completion callback
\* only if what it waited for was observed (every xpath of the call was located); when a wait
\* expires the operation ends with an error, the error of an element wait names the xpath that
\* was asked for, and the completion callback is not invoked, then or later.
C29_WaitsEndOrFailNamingQuery ==
    /\ (xpCall # <<>> /\ ~XpathEnded) ~> XpathEnded
    /\ []((xpCall # <<>> /\ xpPc = "done" /\ WaitsForLocated) =>
              \A i \in 1..Len(CalledXpaths) : ElementExists(CalledXpaths[i]))
    /\ []((xpCall # <<>> /\ WaitExpired) =>
              /\ xpCallbacks = <<>>
              /\ xpThrown[1].kind \in ElementWaitErrors => xpThrown[1].xpath = XpathAsked)
    /\ [][xpPc = "thrown" => xpCallbacks' = xpCallbacks]_vars

\* sendKeysByXpath on an xpath that matches no element: the wait expires
C29_Witness ==
    /\ xpCall # <<>>
    /\ xpCall.op = "sendKeysByXpath"
    /\ xpCall.xpaths.value = "nonexistant"
    /\ xpPc = "thrown"
    /\ xpThrown = <<[kind |-> "Error trying to send input by", xpath |-> "nonexistant"]>>
    /\ xpCallbacks = <<>>

----------------------------------------------------------------------------
(* Properties of queryCalls *)

\* a query whose method does not exist or that has a wrong number of arguments
InvalidQuery(query) ==
    \/ query.functionName \notin MethodNames
    \/ FunctionLength(query.functionName) # query.length

\* C22: queryCalls applies the methods of the queries in list order, the next one only after
\* the one before it has run its completeCallback. It stops at the first failure: a query
\* that names no method or has a wrong number of arguments is not applied, and once an error
\* is thrown no further method is applied and the completeCallback of queryCalls is never
\* run. When every query has succeeded that completeCallback has run exactly once, after the
\* completeCallback of the last query.
C22_QueryCallsInOrderUntilFailure ==
    /\ [](qcCall # <<>> =>
            LET queries == qcCall[1]
            IN /\ Len(qcStarted) <= Len(queries)
               /\ qcStarted = SubSeq(queries, 1, Len(qcStarted))
               /\ Len(qcStarted) <= Len(xpCallbacks) + 1
               /\ \A k \in 1..Len(queries) : InvalidQuery(queries[k]) => Len(qcStarted) < k
               /\ qcCompleted = IF xpPc = "done" THEN 1 ELSE 0
               /\ xpPc = "done" => qcStarted = queries /\ Len(xpCallbacks) = Len(queries)
               /\ xpPc = "thrown" => xpThrown # <<>>)
    /\ [][xpPc = "thrown" => UNCHANGED <<xpPc, qcStarted, qcCompleted, xpCallbacks>>]_vars

\* the first query succeeds and the second names a method that does not exist
C22_Witness ==
    /\ qcCall # <<>>
    /\ Len(qcCall[1]) = 2
    /\ qcCall[1][1].functionName = "assertExistXpath"
    /\ qcCall[1][2].functionName = "nonexistantMethod"
    /\ qcStarted = <<qcCall[1][1]>>
    /\ Len(xpCallbacks) = 1
    /\ xpPc = "thrown"
    /\ xpThrown[Len(xpThrown)].kind = "Specified method to query does not exist"
    /\ qcCompleted = 0

----------------------------------------------------------------------------
(* AutomatedBrowserManager: assertSnapshot *)

\* a snapshot path: the folder, the file name without extension, the extension
SnapshotPaths == [directory : {"snapshots", "asdfasdfas"}, element : {"a"}, extension : {"png", ""}]

\* filesManager.isDirectory(StringUtils.getPath(snapShotPath)): only the snapshots folder exists
IsDirectory(path) == path.directory = "snapshots"

\* the file a snapshot path names
SnapshotFile(path) == <<path.element, ".png">>

\* the pixels of the model are black (0) or white (1): pixelmatch tells them apart under
\* every tolerance
Colours == {0, 1}

ImageSizes == {<<1, 1>>, <<2, 1>>, <<1, 2>>}

Images ==
    UNION {[width : {size[1]}, height : {size[2]}, data : [1..(size[1] * size[2]) -> Colours]] :
              size \in ImageSizes}

Region(x, y, width, height) == [x |-> x, y |-> y, width |-> width, height |-> height]

\* the ignoreRegions a call may pass
RegionLists ==
    {<<Region(0, 0, 1, 1)>>, <<Region(1, 0, 1, 1)>>, <<Region(0, 0, 2, 2)>>, <<Region(-1, 0, 1, 1)>>}

\* the options of a call; a property that is not set is <<>>
SnapshotOptions ==
    [maxDifferentPixels : {<<>>, <<0>>, <<1>>},
     ignoreRegions : {<<>>} \cup {<<regions>> : regions \in RegionLists}]

\* options.x = options.hasOwnProperty('x') ? options.x : default
OptionsWithDefaults(options) ==
    [maxDifferentPixels |-> IF options.maxDifferentPixels = <<>> THEN 0
                            ELSE options.maxDifferentPixels[1],
     ignoreRegions |-> IF options.ignoreRegions = <<>> THEN <<>> ELSE options.ignoreRegions[1]]

SnapshotError(kind, expected, received) ==
    [kind |-> kind, expected |-> expected, received |-> received]

\* only the extension of the path is tested
SnapshotPathErrorExtensionOnly(path) ==
    IF path.extension # "png"
    THEN <<SnapshotError("Snapshot path must be to a PNG file", <<>>, <<>>)>>
    ELSE <<>>

\* the tests of the path made before anything else: <<>> or the error thrown
SnapshotPathError(path) ==
    IF path.extension # "png"
    THEN <<SnapshotError("Snapshot path must be to a PNG file", <<>>, <<>>)>>
    ELSE IF ~IsDirectory(path)
    THEN <<SnapshotError("Cannot save snapshot to non existant path", <<>>, <<>>)>>
    ELSE <<>>

\* the baseline is written again on every call
BaselineMissingAlways(files, path) == TRUE

\* !this.filesManager.isFile(snapShotPath)
BaselineMissing(files, path) == files[SnapshotFile(path)] = <<>>

SizeMismatch(oldSnapshot, newSnapshot) ==
    oldSnapshot.width # newSnapshot.width \/ oldSnapshot.height # newSnapshot.height

\* the size expected is reported as the size received too
SizeMismatchErrorExpectedOnly(oldSnapshot, newSnapshot) ==
    SnapshotError("Snapshot size mismatch", <<oldSnapshot.width, oldSnapshot.height>>,
                  <<oldSnapshot.width, oldSnapshot.height>>)

SizeMismatchError(oldSnapshot, newSnapshot) ==
    SnapshotError("Snapshot size mismatch", <<oldSnapshot.width, oldSnapshot.height>>,
                  <<newSnapshot.width, newSnapshot.height>>)

\* a region that begins left of or above the image is refused as well
RegionTooBigOrNegative(oldSnapshot, region) ==
    \/ region.x + region.width > oldSnapshot.width
    \/ region.y + region.height > oldSnapshot.height
    \/ region.x < 0
    \/ region.y < 0

\* paintRegion throws for a region that does not fit in the old snapshot
RegionTooBig(oldSnapshot, region) ==
    \/ region.x + region.width > oldSnapshot.width
    \/ region.y + region.height > oldSnapshot.height

\* paintRegion: the image with the rectangle filled in black
PaintRegion(image, region) ==
    [image EXCEPT !.data =
        [i \in 1..(image.width * image.height) |->
            LET x == (i - 1) % image.width
                y == (i - 1) \div image.width
            IN IF /\ x >= region.x /\ x < region.x + region.width
                  /\ y >= region.y /\ y < region.y + region.height
               THEN 0 ELSE image.data[i]]]

RECURSIVE PaintRegions(_, _)
PaintRegions(image, regions) ==
    IF regions = <<>> THEN image
    ELSE PaintRegions(PaintRegion(image, Head(regions)), Tail(regions))

\* pixelmatch: the number of pixels that differ, and the image that shows them
Pixelmatch(oldSnapshot, newSnapshot) ==
    LET pixels == 1..(oldSnapshot.width * oldSnapshot.height)
        different == {i \in pixels : oldSnapshot.data[i] # newSnapshot.data[i]}
    IN [differentPixels |-> Cardinality(different),
        diffSnapshot |-> [width |-> oldSnapshot.width, height |-> oldSnapshot.height,
                          data |-> [i \in pixels |-> IF i \in different THEN 1 ELSE 0]]]

\* as many different pixels as allowed make the call fail too
ExceedsAllowedOrReaches(options, differentPixels) == options.maxDifferentPixels <= differentPixels

\* options.maxDifferentPixels < differentPixels
ExceedsAllowed(options, differentPixels) == options.maxDifferentPixels < differentPixels

\* the state of a call as one record
SnCur ==
    [pc |-> snPc, locals |-> snLocals, thrown |-> snThrown, callbacks |-> snCallbacks,
     files |-> snFiles]

SnApply(m) ==
    /\ snPc' = m.pc
    /\ snLocals' = m.locals
    /\ snThrown' = m.thrown
    /\ snCallbacks' = m.callbacks
    /\ snFiles' = m.files

SnapshotFrame == UNCHANGED <<httpVars, brVars, txVars, xpVars>>

\* what the handler of takeScreenshot does with the image that was captured
SnapshotCompare(m, path, options, data) ==
    IF BaselineMissing(m.files, path)
    THEN [m EXCEPT !.pc = "done", !.callbacks = @ + 1,
                   !.locals = [data |-> data, compared |-> FALSE],
                   !.files[SnapshotFile(path)] = <<data>>]
    ELSE LET oldSnapshot == m.files[SnapshotFile(path)][1]
             regions == options.ignoreRegions
         IN IF SizeMismatch(oldSnapshot, data)
            THEN [m EXCEPT !.pc = "thrown",
                           !.locals = [data |-> data, compared |-> FALSE],
                           !.thrown = <<SizeMismatchError(oldSnapshot, data)>>]
            ELSE IF \E i \in 1..Len(regions) : RegionTooBig(oldSnapshot, regions[i])
            THEN [m EXCEPT !.pc = "thrown",
                           !.locals = [data |-> data, compared |-> FALSE],
                           !.thrown = <<SnapshotError(
                               "Specified an ignore region that is bigger than the snapshot",
                               <<>>, <<>>)>>]
            ELSE LET paintedOld == PaintRegions(oldSnapshot, regions)
                     paintedNew == PaintRegions(data, regions)
                     match == Pixelmatch(paintedOld, paintedNew)
                     compared == [m EXCEPT !.locals = [data |-> data, compared |-> TRUE]]
                 IN IF ExceedsAllowed(options, match.differentPixels)
                    THEN [compared EXCEPT
                             !.pc = "thrown",
                             !.files[<<path.element, "-failedSnapshot.png">>] = <<paintedNew>>,
                             !.files[<<path.element, "-failedSnapshotDiff.png">>] =
                                 <<match.diffSnapshot>>,
                             !.thrown = <<SnapshotError("Snapshot mismatch",
                                                        <<options.maxDifferentPixels>>,
                                                        <<match.differentPixels>>)>>]
                    ELSE [compared EXCEPT !.pc = "done", !.callbacks = @ + 1]

\* assertSnapshot(snapShotPath, options, completeCallback) up to waitTillBrowserReady
AssertSnapshot ==
    /\ snPc \in {"idle", "done", "thrown"}
    /\ snCalls < MaxCalls
    /\ \E path \in SnapshotPaths, options \in SnapshotOptions :
          /\ snCall' = <<[snapShotPath |-> path, options |-> OptionsWithDefaults(options)]>>
          /\ SnApply([SnCur EXCEPT
                 !.pc = IF SnapshotPathError(path) = <<>> THEN "ready" ELSE "thrown",
                 !.locals = <<>>,
                 !.thrown = SnapshotPathError(path),
                 !.callbacks = 0])
    /\ snCalls' = snCalls + 1
    /\ SnapshotFrame

\* the page is ready: the callback handed to waitTillBrowserReady asks for the screenshot
SnapshotBrowserReady ==
    /\ snPc = "ready"
    /\ SnApply([SnCur EXCEPT !.pc = "screenshot"])
    /\ UNCHANGED <<snCall, snCalls>>
    /\ SnapshotFrame

\* the wait for the page expires
SnapshotReadyExpires ==
    /\ snPc = "ready"
    /\ SnApply([SnCur EXCEPT
           !.pc = "thrown",
           !.thrown = <<SnapshotError("Error waiting for browser ready", <<>>, <<>>)>>])
    /\ UNCHANGED <<snCall, snCalls>>
    /\ SnapshotFrame

\* driver.takeScreenshot() is answered with the image of the viewport
SnapshotTaken ==
    /\ snPc = "screenshot"
    /\ \E data \in Images :
          SnApply(SnapshotCompare(SnCur, snCall[1].snapShotPath, snCall[1].options, data))
    /\ UNCHANGED <<snCall, snCalls>>
    /\ SnapshotFrame

SnapshotNext ==
    \/ AssertSnapshot
    \/ SnapshotBrowserReady
    \/ SnapshotReadyExpires
    \/ SnapshotTaken

\* the baseline may be there from an earlier run; no failed snapshot was saved yet
SnapshotInit ==
    /\ wildcards = <<>>
    /\ isAssertExceptionsEnabled = TRUE
    /\ okUrls = ServedUrls
    /\ ignoreConsoleErrors = <<>>
    /\ HttpIdle
    /\ BrowserIdle
    /\ TextIdle
    /\ xpCall = <<>>
    /\ xpPc = "idle"
    /\ xpLocals = <<>>
    /\ xpThrown = <<>>
    /\ xpCallbacks = <<>>
    /\ QueryIdle
    /\ ClickIdle
    /\ snCall = <<>>
    /\ snPc = "idle"
    /\ snLocals = <<>>
    /\ snThrown = <<>>
    /\ snCallbacks = 0
    /\ \E baseline \in {<<>>} \cup {<<image>> : image \in Images} :
          snFiles = [name \in SnapshotFileNames |->
                        IF name = <<"a", ".png">> THEN baseline ELSE <<>>]
    /\ snCalls = 0

SpecSnapshot == SnapshotInit /\ [][SnapshotNext]_vars

----------------------------------------------------------------------------
(* Properties of assertSnapshot *)

SnapshotBaseline == snFiles[<<"a", ".png">>]

FailedSnapshot == snFiles[<<"a", "-failedSnapshot.png">>]

FailedSnapshotDiff == snFiles[<<"a", "-failedSnapshotDiff.png">>]

\* the step in which the handler of takeScreenshot runs
SnapshotAnswered == snPc = "screenshot" /\ snPc' \in {"done", "thrown"}

\* every ignore region of the call lies inside the image
RegionsFit(image) ==
    \A i \in 1..Len(snCall[1].options.ignoreRegions) :
        LET region == snCall[1].options.ignoreRegions[i]
        IN /\ region.x + region.width <= image.width
           /\ region.y + region.height <= image.height

\* the first call on a path writes the captured image as the baseline and succeeds without
\* comparing, and no step ever changes a baseline that exists
BaselineCreatedOnceOnly ==
    /\ (SnapshotAnswered /\ SnapshotBaseline = <<>>) =>
          /\ snPc' = "done"
          /\ snCallbacks' = 1
          /\ ~snLocals'.compared
          /\ snFiles' = [snFiles EXCEPT ![<<"a", ".png">>] = <<snLocals'.data>>]
    /\ SnapshotBaseline # <<>> => SnapshotBaseline' = SnapshotBaseline

\* C24 as stated: the baseline is written by the first call only, and any later call on an
\* unchanged viewport (the captured image is the baseline) succeeds.
C24_BaselineOnceAndUnchangedViewportPasses ==
    [][/\ BaselineCreatedOnceOnly
       /\ (SnapshotAnswered /\ SnapshotBaseline = <<snLocals'.data>>) => snPc' = "done"]_vars

\* C24, amended: the baseline is written by the first call only, and a later call on an
\* unchanged viewport succeeds provided every ignore region of the call lies inside the
\* snapshot.
C24_BaselineOnceAndUnchangedViewportPassesIfRegionsFit ==
    [][/\ BaselineCreatedOnceOnly
       /\ (SnapshotAnswered /\ SnapshotBaseline = <<snLocals'.data>>
              /\ RegionsFit(snLocals'.data)) =>
             /\ snPc' = "done"
             /\ snCallbacks' = 1
             /\ snFiles' = snFiles]_vars

\* a second call has compared an unchanged viewport with the baseline, under an ignore region
C24_Witness ==
    /\ snCalls = 2
    /\ snPc = "done"
    /\ snLocals.compared
    /\ SnapshotBaseline = <<snLocals.data>>
    /\ snCall[1].options.ignoreRegions # <<>>
    /\ snCallbacks = 1

\* C25: when the baseline and the captured image differ in width or height the call fails
\* with the size mismatch error, which reports the size of the baseline and the size
\* received, whatever the ignore regions are; nothing is painted or compared, no file is
\* written and the completion callback is not run.
C25_SizeMismatchFailsFirst ==
    [][(/\ SnapshotAnswered
        /\ SnapshotBaseline # <<>>
        /\ \/ SnapshotBaseline[1].width # snLocals'.data.width
           \/ SnapshotBaseline[1].height # snLocals'.data.height) =>
          /\ snPc' = "thrown"
          /\ snThrown' = <<[kind |-> "Snapshot size mismatch",
                            expected |-> <<SnapshotBaseline[1].width, SnapshotBaseline[1].height>>,
                            received |-> <<snLocals'.data.width, snLocals'.data.height>>]>>
          /\ ~snLocals'.compared
          /\ snFiles' = snFiles
          /\ snCallbacks' = 0]_vars

\* a size mismatch reported for a call whose ignore region does not fit either
C25_Witness ==
    /\ snPc = "thrown"
    /\ snThrown[1].kind = "Snapshot size mismatch"
    /\ snThrown[1].expected = <<2, 1>>
    /\ snThrown[1].received = <<1, 2>>
    /\ snCall[1].options.ignoreRegions = <<Region(0, 0, 2, 2)>>
    /\ FailedSnapshot = <<>>
    /\ snCallbacks = 0

\* the pixels in which the baseline and the captured image differ outside the ignore regions
DifferingPixels(oldSnapshot, newSnapshot, regions) ==
    Cardinality({i \in 1..(oldSnapshot.width * oldSnapshot.height) :
        /\ oldSnapshot.data[i] # newSnapshot.data[i]
        /\ \A r \in 1..Len(regions) :
              LET x == (i - 1) % oldSnapshot.width
                  y == (i - 1) \div oldSnapshot.width
              IN ~(/\ x >= regions[r].x /\ x < regions[r].x + regions[r].width
                   /\ y >= regions[r].y /\ y < regions[r].y + regions[r].height)})

\* what C26 says of a call that meets a baseline of the size of the captured image
SnapshotOutcomeByPixels ==
    LET options == snCall[1].options
        found == DifferingPixels(SnapshotBaseline[1], snLocals'.data, options.ignoreRegions)
    IN IF found > options.maxDifferentPixels
       THEN /\ snPc' = "thrown"
            /\ snThrown' = <<[kind |-> "Snapshot mismatch",
                              expected |-> <<options.maxDifferentPixels>>,
                              received |-> <<found>>]>>
            /\ FailedSnapshot' # <<>>
            /\ FailedSnapshotDiff' # <<>>
            /\ SnapshotBaseline' = SnapshotBaseline
            /\ snCallbacks' = 0
       ELSE /\ snPc' = "done"
            /\ snFiles' = snFiles
            /\ snCallbacks' = 1

SameSizeAsBaseline ==
    /\ SnapshotBaseline # <<>>
    /\ SnapshotBaseline[1].width = snLocals'.data.width
    /\ SnapshotBaseline[1].height = snLocals'.data.height

\* C26 as stated: against a baseline of the same size the call fails exactly when more than
\* maxDifferentPixels pixels differ; it then writes both artifacts and reports the allowed
\* and the found counts, and otherwise writes nothing and runs the callback once.
C26_FailsIffTooManyPixelsDiffer ==
    [][(SnapshotAnswered /\ SameSizeAsBaseline) => SnapshotOutcomeByPixels]_vars

\* C26, amended: the same, for the calls whose ignore regions all lie inside the snapshot.
C26_FailsIffTooManyPixelsDifferIfRegionsFit ==
    [][(SnapshotAnswered /\ SameSizeAsBaseline /\ RegionsFit(snLocals'.data)) =>
          SnapshotOutcomeByPixels]_vars

\* one pixel differs where one is allowed, the other difference being under an ignore region
C26_Witness ==
    /\ snPc = "done"
    /\ snLocals.compared
    /\ snCall[1].options.maxDifferentPixels = 1
    /\ snCall[1].options.ignoreRegions = <<Region(0, 0, 1, 1)>>
    /\ SnapshotBaseline = <<[width |-> 1, height |-> 2, data |-> <<0, 0>>]>>
    /\ snLocals.data = [width |-> 1, height |-> 2, data |-> <<1, 1>>]
    /\ snCallbacks = 1

\* C27: a call whose path has not the png extension, or whose folder does not exist, throws
\* in the call itself: the browser is asked for nothing, no file changes and the completion
\* callback is never run.
C27_InvalidPathThrowsAtOnce ==
    /\ [](snCall # <<>> =>
            LET path == snCall[1].snapShotPath
            IN (path.extension # "png" \/ path.directory # "snapshots") =>
                  /\ snPc = "thrown"
                  /\ snThrown[1].kind = IF path.extension # "png"
                                        THEN "Snapshot path must be to a PNG file"
                                        ELSE "Cannot save snapshot to non existant path"
                  /\ snLocals = <<>>
                  /\ snCallbacks = 0)
    /\ [][(snCalls' # snCalls /\ snPc' = "thrown") => snFiles' = snFiles]_vars

\* a png path in a folder that does not exist
C27_Witness ==
    /\ snCall # <<>>
    /\ snCall[1].snapShotPath = [directory |-> "asdfasdfas", element |-> "a", extension |-> "png"]
    /\ snPc = "thrown"
    /\ snThrown[1].kind = "Cannot save snapshot to non existant path"
    /\ snCallbacks = 0

----------------------------------------------------------------------------
(* Properties of assertTextContainsAll: the diagnostics of the strict order *)

\* the positions of the fragment list whose fragment fails: it is absent from the text, or it
\* is present but located before an earlier fragment of the list
FailingFragments(text, fragments) ==
    {i \in 1..Len(fragments) :
        \/ IndexOf(text, fragments[i]) < 0
        \/ \E j \in 1..(i - 1) : IndexOf(text, fragments[i]) < IndexOf(text, fragments[j])}

\* C34: with strictOrder = true assertTextContainsAll reports exactly one diagnostic per
\* failing fragment: an absent fragment yields only the not-found diagnostic, and the strict
\* order diagnostic is only produced for a fragment that is present in the text.
C34_OneDiagnosticPerFailingFragment ==
    (ContainsAllDone /\ txArgs.strictOrder) =>
        LET fragments == FragmentsArray(txArgs.toBeFound)
        IN /\ Len(txErrors) = Cardinality(FailingFragments(txArgs.text, fragments))
           /\ \A e \in 1..Len(txErrors) :
                 \A i \in 1..Len(fragments) :
                    txErrors[e] = <<"does not follow the expected strict order: ">> \o fragments[i]
                        => \E k \in 1..Len(fragments) :
                              fragments[k] = fragments[i] /\ IndexOf(txArgs.text, fragments[k]) >= 0

----------------------------------------------------------------------------
(* Properties of the negative element assertions *)

\* one located element per xpath of the call, in list order
ElementsOfCall == [i \in 1..Len(CalledXpaths) |-> [xpath |-> CalledXpaths[i]]]

\* C39: a negative assertion keeps the positive preconditions below it.
\* assertVisibleXpath(x, false) succeeds exactly when every x exists and is not visible, and
\* fails naming an x that does not exist or is visible; assertClickableXpath(x, false)
\* succeeds exactly when every x exists, is visible and is disabled, and fails naming an x
\* that does not exist, is not visible or is enabled. On success the callback receives one
\* element per xpath.
C39_NegativeAssertionsKeepPreconditions ==
    (xpCall # <<>> /\ XpathEnded /\ ~xpCall.flag
        /\ xpCall.op \in {"assertVisibleXpath", "assertClickableXpath"}) =>
        LET clickable == xpCall.op = "assertClickableXpath"
            Passes(x) == /\ ElementExists(x)
                         /\ IF clickable THEN ElementVisible(x) /\ ~ElementEnabled(x)
                            ELSE ~ElementVisible(x)
        IN IF \A i \in 1..Len(CalledXpaths) : Passes(CalledXpaths[i])
           THEN /\ xpPc = "done"
                /\ xpCallbacks = <<ElementsOfCall>>
           ELSE /\ xpPc = "thrown"
                /\ xpCallbacks = <<>>
                /\ \E i \in 1..Len(CalledXpaths) :
                      /\ xpThrown[1].xpath = CalledXpaths[i]
                      /\ ~Passes(CalledXpaths[i])
                      /\ xpThrown[1].kind =
                            IF ~ElementExists(CalledXpaths[i]) THEN "Error trying to find xpath"
                            ELSE IF clickable /\ ~ElementVisible(CalledXpaths[i])
                            THEN "Expected to be visible"
                            ELSE IF clickable THEN "Expected to be NON clickable"
                            ELSE "Expected to be NON visible"

\* assertClickableXpath(['disabled', 'hidden'], false) fails on the element that is not visible
C39_Witness ==
    /\ xpCall # <<>>
    /\ xpCall.op = "assertClickableXpath"
    /\ ~xpCall.flag
    /\ xpCall.xpaths.isArray
    /\ xpCall.xpaths.value = <<"disabled", "hidden">>
    /\ xpPc = "thrown"
    /\ xpThrown = <<[kind |-> "Expected to be visible", xpath |-> "hidden"]>>
    /\ xpCallbacks = <<>>

----------------------------------------------------------------------------
(* Properties of clickByXpath and clickById *)

\* how many events of the kind the trace holds before position p
EventsBefore(event, p) == Cardinality({q \in 1..(p - 1) : ckTrace[q].event = event})

\* the positions at which the driver was asked to click
ClickPositions == {p \in 1..Len(ckTrace) : ckTrace[p].event = "click"}

\* the driver answered located, visible, enabled for the xpath, in that order, right before p
PreconditionObserved(p, xpath) ==
    /\ p > 3
    /\ ckTrace[p - 3] = [event |-> "located", xpath |-> xpath]
    /\ ckTrace[p - 2] = [event |-> "visible", xpath |-> xpath]
    /\ ckTrace[p - 1] = [event |-> "enabled", xpath |-> xpath]

\* C35: every click is asked only after the element was located, then seen visible, then seen
\* enabled; the xpaths are clicked in list order, and the click of an xpath is asked only after
\* the clicks of all the xpaths before it were fulfilled.
C35_ClickOnlyAfterPreconditions ==
    ckCall # <<>> /\ ckLocals # <<>> =>
        /\ \A p \in ClickPositions :
              /\ EventsBefore("clicked", p) < Len(ckLocals.xpathsArray)
              /\ ckTrace[p].xpath = ckLocals.xpathsArray[EventsBefore("clicked", p) + 1]
              /\ PreconditionObserved(p, ckTrace[p].xpath)
        /\ \A p \in 1..Len(ckTrace) :
              ckTrace[p].event = "clicked" =>
                 p > 1 /\ ckTrace[p - 1] = [event |-> "click", xpath |-> ckTrace[p].xpath]
        /\ xpPc = "done" => EventsBefore("clicked", Len(ckTrace) + 1) = Len(ckLocals.xpathsArray)

\* both elements of a list were clicked, the second after a failed click
C35_Witness ==
    /\ ckCall # <<>>
    /\ ckCall.xpaths.isArray
    /\ ckCall.xpaths.value = <<"input", "input">>
    /\ xpPc = "done"
    /\ EventsBefore("clicked", Len(ckTrace) + 1) = 2
    /\ EventsBefore("click failed", Len(ckTrace) + 1) = 1
    /\ ckCallbacks = 1

\* the clicks asked for the xpath that is being clicked: those after the last fulfilled click
AttemptsOfCurrentXpath ==
    {p \in ClickPositions : \A q \in p..Len(ckTrace) : ckTrace[q].event # "clicked"}

\* C36: the click of one xpath is asked at most ClickAttempts + 1 times, each time after the
\* clickable wait has run again; a fulfilled click ends the attempts for the xpath; the error
\* 'Error trying to click by', naming the xpath, is thrown exactly when that many attempts have
\* failed; the completion callback runs once, when every xpath was clicked; and every call
\* ends.
C36_ClickRetryBounded ==
    /\ [](ckCall # <<>> /\ ckLocals # <<>> =>
            /\ Cardinality(AttemptsOfCurrentXpath) <= ClickAttempts + 1
            /\ \A p \in ClickPositions : PreconditionObserved(p, ckTrace[p].xpath)
            /\ \A p \in ClickPositions :
                  Cardinality({q \in ClickPositions :
                      EventsBefore("clicked", q) = EventsBefore("clicked", p)}) <= ClickAttempts + 1
            /\ (xpPc = "thrown" /\ xpThrown[1].kind = "Error trying to click by") <=>
                  Cardinality({p \in AttemptsOfCurrentXpath :
                      p < Len(ckTrace) /\ ckTrace[p + 1].event = "click failed"})
                    = ClickAttempts + 1
            /\ (xpPc = "thrown" /\ xpThrown[1].kind = "Error trying to click by") =>
                  xpThrown[1].xpath = ckLocals.xpathsArray[ckLocals.index + 1]
            /\ ckCallbacks = IF xpPc = "done" THEN 1 ELSE 0)
    /\ (ckCall # <<>> /\ ~XpathEnded) ~> XpathEnded

\* every attempt to click the element has failed
C36_Witness ==
    /\ ckCall # <<>>
    /\ ckCall.op = "clickByXpath"
    /\ xpPc = "thrown"
    /\ xpThrown = <<[kind |-> "Error trying to click by", xpath |-> "input"]>>
    /\ EventsBefore("click failed", Len(ckTrace) + 1) = ClickAttempts + 1
    /\ ckCallbacks = 0

----------------------------------------------------------------------------
(* Properties of assertSnapshot: the ignore regions *)

\* the region lies inside the image
RegionInside(image, region) ==
    /\ region.x >= 0
    /\ region.y >= 0
    /\ region.x + region.width <= image.width
    /\ region.y + region.height <= image.height

RegionErrorThrown ==
    /\ snPc' = "thrown"
    /\ snThrown'[1].kind = "Specified an ignore region that is bigger than the snapshot"

\* C33 as stated, without its clause on the screenshot: a call with an ignore region that
\* does not lie inside the captured image is rejected with the configuration error, whether
\* a baseline exists or not, and writes no file.
C33_RegionOutsideAlwaysRejected ==
    [][(SnapshotAnswered
          /\ \E i \in 1..Len(snCall[1].options.ignoreRegions) :
                ~RegionInside(snLocals'.data, snCall[1].options.ignoreRegions[i])) =>
          /\ RegionErrorThrown
          /\ snFiles' = snFiles]_vars

\* C33, amended: the ignore regions are examined in the handler of the screenshot, and only
\* when a baseline of the size of the captured image exists. The call is then rejected with
\* the configuration error exactly when a region exceeds the width or the height of the
\* baseline (x + width or y + height); a negative x or y is not rejected. The rejected call
\* compares no pixel, writes no file and does not run the completion callback. On the first
\* run the regions are not examined and the baseline is written.
C33_RegionRejectedOnlyAgainstBaseline ==
    [][SnapshotAnswered =>
          /\ RegionErrorThrown <=>
                /\ SameSizeAsBaseline
                /\ \E i \in 1..Len(snCall[1].options.ignoreRegions) :
                      LET region == snCall[1].options.ignoreRegions[i]
                      IN \/ region.x + region.width > SnapshotBaseline[1].width
                         \/ region.y + region.height > SnapshotBaseline[1].height
          /\ RegionErrorThrown =>
                /\ ~snLocals'.compared
                /\ snFiles' = snFiles
                /\ snCallbacks' = 0
          /\ (SnapshotBaseline = <<>> /\ snCall[1].options.ignoreRegions # <<>>) =>
                /\ snPc' = "done"
                /\ SnapshotBaseline' = <<snLocals'.data>>]_vars

\* the region (1,0,1,1) is rejected against a baseline that is one pixel wide
C33_Witness ==
    /\ snPc = "thrown"
    /\ snThrown[1].kind = "Specified an ignore region that is bigger than the snapshot"
    /\ snCall[1].options.ignoreRegions = <<Region(1, 0, 1, 1)>>
    /\ SnapshotBaseline # <<>>
    /\ SnapshotBaseline[1].width = 1
    /\ snLocals.data.width = 1
    /\ FailedSnapshot = <<>>
    /\ snCallbacks = 0

----------------------------------------------------------------------------
(* Properties of loadUrl and assertBrowserState on a page that changes *)

\* the steps of loadUrl that read the title, the document, the url and the browser log
LoadUrlReads == {"load.title", "load.source", "load.finalUrl", "load.logs"}

\* C31: loadUrl reads the title, the document, the final url and the browser log only
\* after the readiness wait: no read is answered while the document is still loading
C31_LoadUrlReadsAfterReady ==
    [][(brPc \in LoadUrlReads /\ brPc' # brPc) => DocumentReady(brPage)]_vars

\* the steps of assertBrowserState that read the url, the title, the document and the tabs
AbsReads == {"abs.href", "abs.title", "abs.html", "abs.handles"}

\* the failures a title check on the given title records
TitleFailures(title) ==
    (IF assertTextNotContainsAny(title, << <<"404 Not Found">>, <<"Error 404 page">> >>)
     THEN 0 ELSE 1)
    + (IF absAsserts.titleContains # <<>>
          /\ ~assertTextContainsAll(title, absAsserts.titleContains[1], TRUE)
       THEN 1 ELSE 0)

\* C32 as stated: every read of one assertBrowserState call is answered by the page the
\* browser showed when the call started, so no check observes a later state of the page
C32_ChecksObserveStartOfCall ==
    [][(brCall = "assertBrowserState" /\ brPc \in AbsReads /\ brPc' # brPc)
          => brPage = absStart[1]]_vars

\* C32: each check of assertBrowserState observes the page the browser shows when the
\* step reading its value is answered: the url at the href step, the title at the title
\* step, the document at the outerHTML step; a change in between is observed
C32_ChecksObserveCurrentPage ==
    [][(brCall = "assertBrowserState" /\ brPc' # brPc) =>
          /\ brPc = "abs.href" => absBrowserUrl' = <<brPage.url>>
          /\ brPc = "abs.title" =>
                 Len(absAnyErrors') = Len(absAnyErrors) + TitleFailures(brPage.title)
          /\ brPc = "abs.html" =>
                 Len(absAnyErrors') = Len(absAnyErrors)
                    + Len(validateHtml(brPage.html, absBrowserUrl[1],
                          absAsserts.loadedHtmlStartsWith, absAsserts.loadedHtmlEndsWith,
                          absAsserts.loadedHtmlNotContains, absAsserts.loadedHtmlContains,
                          absAsserts.loadedHtmlRegExp))]_vars

\* the url was read before the script of the page ran, the title after it
C32_Witness ==
    /\ brCall = "assertBrowserState"
    /\ brPc = "abs.logs"
    /\ absStart = <<LoadedPage>>
    /\ absBrowserUrl = <<LoadedPage.url>>
    /\ brPage = ScriptedPage
    /\ \E i \in 1..Len(absAnyErrors) : absAnyErrors[i].kind = "Title does not contain"

----------------------------------------------------------------------------
(* Properties of assertBrowserState: the checks no field asks for *)

TitleShows404 ==
    ~assertTextNotContainsAny(brPage.title, << <<"404 Not Found">>, <<"Error 404 page">> >>)

UnexcusedSevereEntries ==
    {i \in 1..Len(logEntries) :
        /\ logEntries[i].level = "SEVERE"
        /\ ~Excused(logEntries[i], ignoreConsoleErrors, absAsserts.ignoreConsoleErrors)}

\* C38: for every asserts object, the empty one included, assertBrowserState fails when the
\* title of the browser shows a 404 text and fails when the log buffer holds a SEVERE
\* entry that is not excused: a call that succeeds has met neither
C38_TitleAndConsoleAlwaysChecked ==
    (AbsFinished /\ (TitleShows404 \/ UnexcusedSevereEntries # {})) => brPc = "thrown"

----------------------------------------------------------------------------
(* Properties of the completion callback *)

CallbackMethods == {"assertBrowserState", "assertUrlsLoadOk", "assertUrlsRedirect"}

\* a call of the browser manager has ended: its callback ran or an error was thrown
BrowserCallEnded == brCall \in CallbackMethods /\ brPc \in {"idle", "thrown"}

\* a call of the http manager has ended
HttpCallEnded == httpOp # "none" /\ httpPc \in {"completed", "thrown", "crashed"}

----------------------------------------------------------------------------
(* Properties of the batch methods: the list the caller passed *)

\* recursiveCaller is handed the array of the caller itself, so after urls.shift() the
\* caller's list is what batchUrls (httpUrls) holds
IsSuffix(s, t) == Len(s) <= Len(t) /\ s = SubSeq(t, Len(t) - Len(s) + 1, Len(t))

BrowserBatchMethods == {"assertUrlsLoadOk", "assertUrlsRedirect"}

\* C40 as stated: a batch method leaves the list of the caller as it was passed, with the
\* same length and the same elements, and the entry in work keeps its fields
C40_CallerInputUnchanged ==
    /\ brCall \in BrowserBatchMethods =>
           /\ batchUrls = batchInput
           /\ batchEntry # <<>> => \E i \in 1..Len(batchInput) : batchEntry[1] = batchInput[i]
    /\ httpOp # "none" =>
           /\ httpUrls = httpInput
           /\ httpEntry # <<>> => \E i \in 1..Len(httpInput) : httpEntry[1] = httpInput[i]

\* C40: a batch method consumes the list of the caller: every entry it starts is removed
\* from the front, so the list is the rest of the input and is empty when the callback
\* runs; assertUrlsLoadOk, assertUrlsRedirect and assertHttpRequests overwrite the url of
\* the removed entry with the substituted url, and assertUrlsLoadOk deletes it afterwards
C40_CallerInputConsumed ==
    /\ brCall \in BrowserBatchMethods =>
           /\ IsSuffix(batchUrls, batchInput)
           /\ (brPc = "idle" /\ brCompleted = 1) => batchUrls = <<>>
           /\ batchEntry # <<>> =>
                  batchEntry[1].url =
                      replaceWildCardsOnText(batchInput[Len(batchInput) - Len(batchUrls)].url,
                                             wildcards)
           /\ (brCall = "assertUrlsLoadOk" /\ Len(batchUrls) < Len(batchInput)
                  /\ absTrace # <<>>) => absAsserts.url = <<>>
    /\ httpOp # "none" =>
           /\ IsSuffix(httpUrls, httpInput)
           /\ httpPc = "completed" => httpUrls = <<>>
           /\ (httpOp = "assertHttpRequests" /\ httpEntry # <<>>) =>
                  httpEntry[1].url =
                      replaceWildCardsOnText(httpInput[Len(httpInput) - Len(httpUrls)].url,
                                             wildcards)

\* assertUrlsLoadOk ran its callback: the list of two entries is empty and the url $ of
\* its first entry was overwritten before it was loaded
C40_Witness ==
    /\ brCall = "assertUrlsLoadOk"
    /\ brPc = "idle"
    /\ brCompleted = 1
    /\ Len(batchInput) = 2
    /\ batchInput[1].url = W
    /\ brNavigations[1] = A
    /\ batchUrls = <<>>

============================================================================
